---- MODULE Spec2Model ----
(***************************************************************************)
(* Model of the lecture-scribe server: the POST /api/process-audio handler *)
(* (src/server/routes.ts), generateAISummary (src/server/ai.ts),           *)
(* transcribeAudio (src/server/services/transcription.ts) and MemStorage   *)
(* (src/server/storage.ts).                                                *)
(*                                                                         *)
(* Text is kept run-length encoded: a string is a sequence of runs         *)
(* [c |-> character, n |-> repetitions] in which adjacent runs carry       *)
(* different characters, so equal strings are equal values and a           *)
(* 3500-character chunk is a single run.                                   *)
(*                                                                         *)
(* JavaScript values are tagged records [k |-> type, v |-> payload].       *)
(* A number's payload is the fraction <<numerator, denominator>>; NaN is   *)
(* <<0, 0>>.  JSON text is a sequence of tokens: punctuation, literals     *)
(* (each literal token carries the value it denotes) and prose.            *)
(***************************************************************************)
EXTENDS Integers, Sequences, FiniteSets, TLC

Min(a, b) == IF a < b THEN a ELSE b

Max(a, b) == IF a > b THEN a ELSE b

(* ---------------------------- strings ---------------------------------- *)

Rep(c, n) == IF n <= 0 THEN << >> ELSE << [c |-> c, n |-> n] >>

\* string concatenation (the + and += of the source, on strings)
StrCat(s, t) ==
  IF s = << >> THEN t
  ELSE IF t = << >> THEN s
  ELSE IF s[Len(s)].c = t[1].c
       THEN SubSeq(s, 1, Len(s) - 1)
              \o << [c |-> t[1].c, n |-> s[Len(s)].n + t[1].n] >>
              \o Tail(t)
       ELSE s \o t

RECURSIVE FromChars(_)
\* the string spelled by a sequence of characters
FromChars(cs) ==
  IF cs = << >> THEN << >> ELSE StrCat(Rep(Head(cs), 1), FromChars(Tail(cs)))

RECURSIVE StrLen(_)
\* String.prototype.length
StrLen(s) == IF s = << >> THEN 0 ELSE Head(s).n + StrLen(Tail(s))

RECURSIVE StrSlice(_, _, _)
\* String.prototype.slice(a, b) for 0 <= a: the characters at positions a..b-1
StrSlice(s, a, b) ==
  IF s = << >> \/ b <= 0 \/ a >= b THEN << >>
  ELSE LET h  == Head(s)
           lo == Max(a, 0)
           hi == Min(b, h.n)
       IN StrCat(Rep(h.c, hi - lo), StrSlice(Tail(s), a - h.n, b - h.n))

IsSpace(c) == c \in {" ", "\n"}

RECURSIVE TrimStart(_)
TrimStart(s) ==
  IF s # << >> /\ IsSpace(Head(s).c) THEN TrimStart(Tail(s)) ELSE s

RECURSIVE TrimEnd(_)
TrimEnd(s) ==
  IF s # << >> /\ IsSpace(s[Len(s)].c) THEN TrimEnd(SubSeq(s, 1, Len(s) - 1)) ELSE s

\* String.prototype.trim
StrTrim(s) == TrimEnd(TrimStart(s))

RECURSIVE StrJoin(_, _)
\* Array.prototype.join on an array of strings
StrJoin(arr, sep) ==
  IF arr = << >> THEN << >>
  ELSE IF Len(arr) = 1 THEN arr[1]
  ELSE StrCat(StrCat(arr[1], sep), StrJoin(Tail(arr), sep))

RECURSIVE Chars(_)
\* the characters of a string, one by one (iteration over a string)
Chars(s) ==
  IF s = << >> THEN << >>
  ELSE LET h == Head(s)
       IN << h.c >> \o Chars(Rep(h.c, h.n - 1) \o Tail(s))

(* ------------------------- JavaScript values --------------------------- *)

Undefined == [k |-> "undefined", v |-> 0]

Null == [k |-> "null", v |-> 0]

Bool(b) == [k |-> "boolean", v |-> b]

Frac(n, d) == [k |-> "number", v |-> << n, d >>]

Num(n) == Frac(n, 1)

NaN == Frac(0, 0)

StrV(s) == [k |-> "string", v |-> s]

Arr(a) == [k |-> "array", v |-> a]

\* an object is its list of members [key, val] in insertion order
Obj(ms) == [k |-> "object", v |-> ms]

IsNaN(x) == x.k = "number" /\ x.v[2] = 0

\* x > 0 on a number
Positive(x) == x.k = "number" /\ x.v[2] > 0 /\ x.v[1] > 0

\* ToBoolean: the falsy values are undefined, null, false, 0, NaN and ""
Truthy(x) ==
  CASE x.k \in {"undefined", "null"} -> FALSE
    [] x.k = "boolean" -> x.v
    [] x.k = "number"  -> x.v[1] # 0
    [] x.k = "string"  -> x.v # << >>
    [] OTHER -> TRUE

RECURSIVE Lookup(_, _)
\* property read on a list of members: the last member with that key wins
Lookup(ms, key) ==
  IF ms = << >> THEN Undefined
  ELSE IF ms[Len(ms)].key = key THEN ms[Len(ms)].val
  ELSE Lookup(SubSeq(ms, 1, Len(ms) - 1), key)

\* x.key for a value that is neither null nor undefined
Get(x, key) == IF x.k = "object" THEN Lookup(x.v, key) ELSE Undefined

Digits == << "0", "1", "2", "3", "4", "5", "6", "7", "8", "9" >>

DigitVal(c) == (CHOOSE i \in 1..10 : Digits[i] = c) - 1

IsDigit(c) == \E i \in 1..10 : Digits[i] = c

RECURSIVE DecVal(_, _)
DecVal(cs, acc) ==
  IF cs = << >> THEN acc ELSE DecVal(Tail(cs), 10 * acc + DigitVal(Head(cs)))

\* Number(string) for strings made of digits, "-", blanks and letters:
\* blank strings are 0, an optionally negated run of digits is its decimal
\* value, anything else is NaN
StringToNumber(s) ==
  LET cs   == Chars(StrTrim(s))
      neg  == cs # << >> /\ Head(cs) = "-"
      body == IF neg THEN Tail(cs) ELSE cs
  IN IF cs = << >> THEN Num(0)
     ELSE IF body # << >> /\ \A i \in 1..Len(body) : IsDigit(body[i])
          THEN Num(IF neg THEN 0 - DecVal(body, 0) ELSE DecVal(body, 0))
          ELSE NaN

RECURSIVE NumberOf(_)
\* Number(x)
NumberOf(x) ==
  CASE x.k = "number"    -> x
    [] x.k = "string"    -> StringToNumber(x.v)
    [] x.k = "boolean"   -> IF x.v THEN Num(1) ELSE Num(0)
    [] x.k = "null"      -> Num(0)
    [] x.k = "undefined" -> NaN
    [] x.k = "array"     ->
         IF x.v = << >> THEN Num(0)
         ELSE IF Len(x.v) > 1 THEN NaN
         ELSE IF x.v[1].k \in {"null", "undefined"} THEN Num(0)
         ELSE IF x.v[1].k \in {"number", "string", "array"} THEN NumberOf(x.v[1])
         ELSE NaN
    [] OTHER -> NaN

RECURSIVE NatDigits(_)
NatDigits(n) ==
  IF n < 10 THEN << Digits[n + 1] >> ELSE NatDigits(n \div 10) \o << Digits[(n % 10) + 1] >>

\* String(x) for the scalars a summary field can hold
StringOf(x) ==
  CASE x.k = "string"    -> x.v
    [] x.k = "undefined" -> FromChars(<< "u", "n", "d", "e", "f", "i", "n", "e", "d" >>)
    [] x.k = "null"      -> FromChars(<< "n", "u", "l", "l" >>)
    [] x.k = "boolean"   -> IF x.v THEN FromChars(<< "t", "r", "u", "e" >>)
                            ELSE FromChars(<< "f", "a", "l", "s", "e" >>)
    [] x.k = "number" /\ x.v[2] = 1 /\ x.v[1] >= 0 -> FromChars(NatDigits(x.v[1]))
    [] OTHER -> FromChars(<< "?" >>)

\* SameValueZero, the comparison of Array.prototype.includes
SameValueZero(x, y) == x.k = y.k /\ (x.k \in {"undefined", "null"} \/ x.v = y.v)

\* Array.prototype.includes
Includes(arr, x) == \E i \in 1..Len(arr) : SameValueZero(arr[i], x)

\* Array.prototype.slice(a, b) with 0 <= a <= b
ArrSlice(arr, a, b) == SubSeq(arr, a + 1, Min(b, Len(arr)))

RECURSIVE MapNumber(_)
\* arr.map((m) => Number(m))
MapNumber(arr) ==
  IF arr = << >> THEN << >> ELSE << NumberOf(Head(arr)) >> \o MapNumber(Tail(arr))

(* ------------------------------ JSON text ------------------------------ *)

\* punctuation token: one of "[", "]", "{", "}", ","
P(x) == [k |-> "p", v |-> x]

\* literal token: a number, string, true, false or null literal
Lit(val) == [k |-> "lit", v |-> val]

\* member-name token: a string literal followed by a colon
Key(name) == [k |-> "key", v |-> name]

\* a stretch of prose that is not JSON and holds no brace
Prose == [k |-> "text", v |-> 0]

IsP(t, x) == t.k = "p" /\ t.v = x

ParseFail == [ok |-> FALSE, val |-> Undefined, next |-> 0]

RECURSIVE ParseValue(_, _), ParseElements(_, _, _), ParseMembers(_, _, _)
\* one JSON value starting at token i
ParseValue(toks, i) ==
  IF i > Len(toks) THEN ParseFail
  ELSE IF toks[i].k = "lit" THEN [ok |-> TRUE, val |-> toks[i].v, next |-> i + 1]
  ELSE IF IsP(toks[i], "[") THEN
         IF i + 1 <= Len(toks) /\ IsP(toks[i + 1], "]")
         THEN [ok |-> TRUE, val |-> Arr(<< >>), next |-> i + 2]
         ELSE ParseElements(toks, i + 1, << >>)
  ELSE IF IsP(toks[i], "{") THEN
         IF i + 1 <= Len(toks) /\ IsP(toks[i + 1], "}")
         THEN [ok |-> TRUE, val |-> Obj(<< >>), next |-> i + 2]
         ELSE ParseMembers(toks, i + 1, << >>)
  ELSE ParseFail

ParseElements(toks, i, acc) ==
  LET r == ParseValue(toks, i)
  IN IF ~r.ok \/ r.next > Len(toks) THEN ParseFail
     ELSE IF IsP(toks[r.next], ",") THEN ParseElements(toks, r.next + 1, Append(acc, r.val))
     ELSE IF IsP(toks[r.next], "]")
          THEN [ok |-> TRUE, val |-> Arr(Append(acc, r.val)), next |-> r.next + 1]
          ELSE ParseFail

ParseMembers(toks, i, acc) ==
  IF i > Len(toks) \/ toks[i].k # "key" THEN ParseFail
  ELSE LET r == ParseValue(toks, i + 1)
           m == [key |-> toks[i].v, val |-> r.val]
       IN IF ~r.ok \/ r.next > Len(toks) THEN ParseFail
          ELSE IF IsP(toks[r.next], ",") THEN ParseMembers(toks, r.next + 1, Append(acc, m))
          ELSE IF IsP(toks[r.next], "}")
               THEN [ok |-> TRUE, val |-> Obj(Append(acc, m)), next |-> r.next + 1]
               ELSE ParseFail

\* JSON.parse: the whole text must be one value; ok = FALSE is the SyntaxError
JSONparse(toks) ==
  LET r == ParseValue(toks, 1)
  IN IF r.ok /\ r.next = Len(toks) + 1
     THEN [ok |-> TRUE, val |-> r.val]
     ELSE [ok |-> FALSE, val |-> Undefined]

RECURSIVE Stringify(_), StringifyElements(_), StringifyMembers(_)
\* JSON.stringify of a value built from scalars, arrays and objects
Stringify(x) ==
  CASE x.k = "array"  -> << P("[") >> \o StringifyElements(x.v) \o << P("]") >>
    [] x.k = "object" -> << P("{") >> \o StringifyMembers(x.v) \o << P("}") >>
    [] OTHER -> << Lit(x) >>

StringifyElements(a) ==
  IF a = << >> THEN << >>
  ELSE IF Len(a) = 1 THEN Stringify(a[1])
  ELSE Stringify(a[1]) \o << P(",") >> \o StringifyElements(Tail(a))

StringifyMembers(ms) ==
  IF ms = << >> THEN << >>
  ELSE IF Len(ms) = 1 THEN << Key(ms[1].key) >> \o Stringify(ms[1].val)
  ELSE << Key(ms[1].key) >> \o Stringify(ms[1].val) \o << P(",") >> \o StringifyMembers(Tail(ms))

BraceOpens(toks) == {i \in 1..Len(toks) : IsP(toks[i], "{")}

BraceCloses(toks) == {i \in 1..Len(toks) : IsP(toks[i], "}")}

MinOf(S) == CHOOSE x \in S : \A y \in S : x <= y

MaxOf(S) == CHOOSE x \in S : \A y \in S : x >= y

\* content.match(/\{[\s\S]*\}/): from the first "{" to the last "}" after it
MatchBraces(toks) ==
  IF BraceOpens(toks) = {} THEN [found |-> FALSE, text |-> << >>]
  ELSE LET i == MinOf(BraceOpens(toks))
           after == {j \in BraceCloses(toks) : j > i}
       IN IF after = {} THEN [found |-> FALSE, text |-> << >>]
          ELSE [found |-> TRUE, text |-> SubSeq(toks, i, MaxOf(after))]

\* safeJSONParse: the parsed object, or null when nothing matches or the
\* match does not parse
safeJSONParse(content) ==
  LET match == MatchBraces(content)
  IN IF ~match.found THEN Null
     ELSE IF JSONparse(match.text).ok THEN JSONparse(match.text).val
     ELSE Null

(* ------------------------------ marks list ----------------------------- *)

DefaultMarks == << Num(2), Num(5) >>

\* the filter with m >= 0
ValidMark_nonNegative(m) == ~IsNaN(m) /\ m.v[1] >= 0

\* .filter((m) => !isNaN(m) && m > 0)
ValidMark(m) == ~IsNaN(m) /\ Positive(m)

\* the marks list computed from the marksList form field: field is
\* Undefined when the field is absent, else StrV-like [k |-> "text", v |-> tokens]
ParseMarksList(field) ==
  LET parsed == JSONparse(field.v)
      marksList ==
        IF field.k = "text" /\ field.v # << >> /\ parsed.ok /\ parsed.val.k = "array"
        THEN SelectSeq(MapNumber(parsed.val.v), ValidMark)
        ELSE DefaultMarks
  IN ArrSlice(marksList, 0, 2)

Text(toks) == [k |-> "text", v |-> toks]

(* ------------------------- pure parts of ai.ts ------------------------- *)

MAX_LENGTH == 3500

RECURSIVE chunkTextFrom_wholeOnly(_, _, _)
\* the loop that pushes slices of maxLength characters only
chunkTextFrom_wholeOnly(text, maxLength, start) ==
  IF start + maxLength <= StrLen(text)
  THEN << StrSlice(text, start, start + maxLength) >>
         \o chunkTextFrom_wholeOnly(text, maxLength, start + maxLength)
  ELSE << >>

RECURSIVE chunkTextFrom(_, _, _)
\* the while loop of chunkText, from position start
chunkTextFrom(text, maxLength, start) ==
  IF start < StrLen(text)
  THEN << StrSlice(text, start, start + maxLength) >>
         \o chunkTextFrom(text, maxLength, start + maxLength)
  ELSE << >>

chunkText(text, maxLength) == chunkTextFrom(text, maxLength, 0)

\* what one summarization call hands to Promise.all: null when the call
\* throws or has no content, else safeJSONParse(content)
SummarizeResult(reply) ==
  IF reply.k = "throw" THEN Null
  ELSE IF reply.v.k # "text" \/ reply.v.v = << >> THEN Null
  ELSE safeJSONParse(reply.v.v)

\* combinedNotes.push(...x): an array gives its elements, a string its
\* characters, anything else is not iterable
Spread(x) ==
  CASE x.k = "array"  -> [threw |-> FALSE, items |-> x.v]
    [] x.k = "string" -> [threw |-> FALSE,
                          items |-> [i \in 1..Len(Chars(x.v)) |-> StrV(Rep(Chars(x.v)[i], 1))]]
    [] OTHER -> [threw |-> TRUE, items |-> << >>]

RECURSIVE Combine_noSkip(_, _)
\* the loop without its "if (!parsed) continue"
Combine_noSkip(rs, acc) ==
  IF rs = << >> \/ acc.threw THEN acc
  ELSE LET parsed == Head(rs)
           sp == Spread(Get(parsed, "structuredNotes"))
       IN Combine_noSkip(Tail(rs),
            [threw   |-> sp.threw,
             summary |-> StrCat(StrCat(acc.summary, Rep(" ", 1)),
                                StringOf(Get(parsed, "summary"))),
             notes   |-> acc.notes \o sp.items])

RECURSIVE Combine_prepend(_, _)
\* each result put in front of what was combined so far
Combine_prepend(rs, acc) ==
  IF rs = << >> \/ acc.threw THEN acc
  ELSE LET parsed == Head(rs)
           sp == Spread(Get(parsed, "structuredNotes"))
       IN IF ~Truthy(parsed) THEN Combine_prepend(Tail(rs), acc)
          ELSE Combine_prepend(Tail(rs),
                 [threw   |-> sp.threw,
                  summary |-> StrCat(StrCat(StringOf(Get(parsed, "summary")), Rep(" ", 1)),
                                     acc.summary),
                  notes   |-> sp.items \o acc.notes])

RECURSIVE Combine(_, _)
\* for (const parsed of results) { if (!parsed) continue; ... }
Combine(rs, acc) ==
  IF rs = << >> \/ acc.threw THEN acc
  ELSE LET parsed == Head(rs)
           sp == Spread(Get(parsed, "structuredNotes"))
       IN IF ~Truthy(parsed) THEN Combine(Tail(rs), acc)
          ELSE Combine(Tail(rs),
                 [threw   |-> sp.threw,
                  summary |-> StrCat(StrCat(acc.summary, Rep(" ", 1)),
                                     StringOf(Get(parsed, "summary"))),
                  notes   |-> acc.notes \o sp.items])

\* combinedQA left undefined when the call gives nothing
QAFromReply_undefined(reply) ==
  IF reply.k = "throw" THEN Undefined
  ELSE IF reply.v.k # "text" \/ reply.v.v = << >> THEN Undefined
  ELSE Get(safeJSONParse(reply.v.v), "qaPairs")

\* the question call's effect on combinedQA: parsed?.qaPairs || [] when the
\* call returns content, the initial [] otherwise
QAFromReply(reply) ==
  IF reply.k = "throw" THEN Arr(<< >>)
  ELSE IF reply.v.k # "text" \/ reply.v.v = << >> THEN Arr(<< >>)
  ELSE LET parsed == safeJSONParse(reply.v.v)
           qaPairs == Get(parsed, "qaPairs")
       IN IF Truthy(qaPairs) THEN qaPairs ELSE Arr(<< >>)

\* the filter that keeps every pair
KeepQA_all(qa, marksList) == TRUE

\* the filter that looks at the first entry of marksList only
KeepQA_firstMark(qa, marksList) ==
  marksList # << >> /\ SameValueZero(marksList[1], Get(qa, "marks"))

\* (qa) => marksList.includes(qa.marks)
KeepQA(qa, marksList) == Includes(marksList, Get(qa, "marks"))

\* combinedQA.filter(...): throws when combinedQA has no filter method or
\* an element has no properties
FilterQA(combinedQA, marksList) ==
  IF combinedQA.k # "array" THEN [threw |-> TRUE, items |-> << >>]
  ELSE IF \E i \in 1..Len(combinedQA.v) : combinedQA.v[i].k \in {"null", "undefined"}
       THEN [threw |-> TRUE, items |-> << >>]
  ELSE [threw |-> FALSE,
        items |-> SelectSeq(combinedQA.v, LAMBDA qa : KeepQA(qa, marksList))]

(* ------------------------ pure parts of routes.ts ---------------------- *)

BATCH_SIZE == 5

CHUNK_DURATION == 180

\* transcript.text ?? ""
transcribeAudioText(text) == IF text.k \in {"null", "undefined"} THEN << >> ELSE text.v

\* the join without the trim
MergeTranscript_untrimmed(results) == StrJoin(results, Rep("\n", 2))

\* results.join("\n\n").trim()
MergeTranscript(results) == StrTrim(StrJoin(results, Rep("\n", 2)))

RECURSIVE LeadingDigits(_)
LeadingDigits(cs) ==
  IF cs # << >> /\ IsDigit(Head(cs)) THEN << Head(cs) >> \o LeadingDigits(Tail(cs)) ELSE << >>

RECURSIVE StripZeros(_)
\* fraction digits without the trailing zeros, which leave the value alone
StripZeros(ds) ==
  IF ds # << >> /\ ds[Len(ds)] = "0" THEN StripZeros(SubSeq(ds, 1, Len(ds) - 1)) ELSE ds

RECURSIVE Pow10(_)
Pow10(n) == IF n = 0 THEN 1 ELSE 10 * Pow10(n - 1)

\* parseFloat(stdout.trim()) on unsigned text: the value of the longest
\* prefix of the form digits, digits.digits or .digits, NaN when there is none
ParseFloat(s) ==
  LET cs    == Chars(StrTrim(s))
      whole == LeadingDigits(cs)
      rest  == SubSeq(cs, Len(whole) + 1, Len(cs))
      frac  == IF rest # << >> /\ Head(rest) = "." THEN LeadingDigits(Tail(rest)) ELSE << >>
      sig   == StripZeros(frac)
  IN IF whole = << >> /\ frac = << >> THEN NaN
     ELSE Frac(DecVal(whole \o sig, 0), Pow10(Len(sig)))

\* duration <= CHUNK_DURATION (false for NaN)
IsShortAudio(duration) == duration.v[2] # 0 /\ duration.v[1] <= CHUNK_DURATION * duration.v[2]

(* ------------------------------ environment ---------------------------- *)

\* longest recording, in 180-second segments
MaxChunks == 6

\* recordings of at most this many segments mix all kinds of segment
MaxShort == 2

\* characters of speech in a segment of continuous talk
LongLen == 3500

\* external calls that may fail or answer malformed text in one request
MaxFaults == 1

\* most question/answer pairs in one reply of the language model
MaxQA == 2

\* letters that spell neither "undefined" nor "null"
Letter == << "a", "b", "c", "g", "h", "j", "k", "m", "o", "p", "q", "r" >>

SegmentKinds == {"silent", "blank", "word", "long"}

\* the text the speech service finds in segment j of a recording
SegmentText(j, kind) ==
  CASE kind = "silent" -> Null
    [] kind = "blank"  -> StrV(Rep(" ", 1))
    [] kind = "word"   -> StrV(Rep(Letter[j], 1))
    [] kind = "long"   -> StrV(Rep(Letter[j], LongLen))

\* a recording is the list of its segments' kinds
Recordings ==
  UNION {[1..n -> SegmentKinds] : n \in 0..MaxShort}
    \cup {[j \in 1..n |-> kind] : n \in (MaxShort + 1)..MaxChunks, kind \in {"word", "long"}}

\* seconds of audio in a recording: the last segment is one minute long
\* and the recording without segments has no audio at all
DurationOf(audio) == IF audio = << >> THEN 0 ELSE CHUNK_DURATION * Len(audio) - 120

Throw == [k |-> "throw", v |-> Undefined]

Reply(content) == [k |-> "reply", v |-> content]

\* the object a well-behaved model writes for text chunk t
GoodSummary(t) ==
  Obj(<< [key |-> "summary", val |-> StrV(Rep(Letter[t], 1))],
         [key |-> "structuredNotes",
          val |-> Arr(<< Obj(<< [key |-> "heading", val |-> StrV(Rep(Letter[t], 1))],
                               [key |-> "points", val |-> Arr(<< >>)] >>) >>)] >>)

GoodSumReplies(t) ==
  { Reply(Text(Stringify(GoodSummary(t)))),
    Reply(Text(<< Prose >> \o Stringify(GoodSummary(t)) \o << Prose >>)) }

BadSumReplies(t) ==
  { Throw,
    Reply(Undefined),
    Reply(Text(<< >>)),
    Reply(Text(<< Prose >>)),
    Reply(Text(<< P("{"), Prose >>)),
    Reply(Text(Stringify(GoodSummary(t)) \o << Prose, P("}") >>)),
    Reply(Text(Stringify(Obj(SubSeq(GoodSummary(t).v, 1, 1))))),
    Reply(Text(Stringify(Obj(SubSeq(GoodSummary(t).v, 2, 2))))) }

QAMarks == { Num(2), Num(5) }

QAItem(i, marks) ==
  Obj(<< [key |-> "question", val |-> StrV(Rep(Letter[i], 1))],
         [key |-> "answer", val |-> StrV(Rep(Letter[i], 2))],
         [key |-> "marks", val |-> marks] >>)

QALists ==
  UNION {{[i \in 1..n |-> QAItem(i, f[i])] : f \in [1..n -> QAMarks]} : n \in 0..MaxQA}

QAObject(qaPairs) == Obj(<< [key |-> "qaPairs", val |-> qaPairs] >>)

GoodQAReplies ==
  {Reply(Text(Stringify(QAObject(Arr(l))))) : l \in QALists}

BadQAReplies ==
  { Throw,
    Reply(Undefined),
    Reply(Text(<< Prose >>)),
    Reply(Text(Stringify(Obj(<< >>)))),
    Reply(Text(Stringify(QAObject(Null)))),
    Reply(Text(Stringify(QAObject(StrV(Rep("x", 1)))))),
    Reply(Text(Stringify(QAObject(Arr(<< Null >>))))),
    Reply(Text(Stringify(QAObject(Arr(<< QAItem(1, StrV(Rep("2", 1))),
                                         Obj(<< >>),
                                         QAItem(3, Num(2)) >>))))) }

\* marksList form fields of the requests: absent, [2, 10] and []
RouteFields ==
  { Undefined,
    Text(Stringify(Arr(<< Num(2), Num(10) >>))),
    Text(Stringify(Arr(<< >>))) }

\* most entries in a submitted marks array
MaxMarks == 4

MarkEntries ==
  { Num(2), Num(5), Frac(5, 2), StrV(Rep("3", 1)),
    Num(0), Num(0 - 1), StrV(Rep("x", 1)), Null }

MarkArrays(most) == UNION {[1..n -> MarkEntries] : n \in 0..most}

\* marksList form fields: absent, empty, a JSON array, a JSON array cut
\* short, a JSON value that is no array
MarksFields(most) ==
  { Undefined, Text(<< >>), Text(Stringify(Obj(<< >>))) }
    \cup {Text(Stringify(Arr(a))) : a \in MarkArrays(most)}
    \cup {Text(SubSeq(Stringify(Arr(a)), 1, Len(Stringify(Arr(a))) - 1)) : a \in MarkArrays(most)}
    \cup {Text(Stringify(e)) : e \in MarkEntries}

NoFileRequest ==
  [file |-> FALSE, tooLarge |-> FALSE, marksList |-> Undefined, audio |-> << >>, halves |-> 0]

\* an upload whose audio part is larger than limits.fileSize
TooLargeRequest ==
  [file |-> TRUE, tooLarge |-> TRUE, marksList |-> Undefined, audio |-> << "word" >>,
   halves |-> 2 * DurationOf(<< "word" >>)]

Requests ==
  {NoFileRequest, TooLargeRequest}
    \cup {[file |-> TRUE, tooLarge |-> FALSE, marksList |-> f, audio |-> a,
            halves |-> 2 * DurationOf(a)] : f \in RouteFields, a \in Recordings}

(* -------------------------------- state -------------------------------- *)

VARIABLES
  req,             \* the request: file present, file over the size limit,
                   \* marksList field, recording, its duration in half seconds
  pc,              \* the await the handler is suspended at
  faults,          \* failures injected so far
  marksList,       \* routes.ts: marksList
  tempDir,         \* splitAudioIntoChunks: tempDir exists
  chunks,          \* routes.ts: chunks, each buffer named by its segment
  i,               \* transcribeChunks: i
  results,         \* transcribeChunks: results
  batchResults,    \* transcribeChunks: the promises given to Promise.all
  sttLog,          \* the chunks transcribeAudio was invoked with, in order
  sttDone,         \* how many transcribeAudio calls have returned or thrown
  transcription,   \* routes.ts: transcription
  textChunks,      \* generateAISummary: chunks
  ci,              \* generateAISummary: i
  sumResults,      \* generateAISummary: the promises given to Promise.all
  combinedSummary, \* generateAISummary: combinedSummary
  combinedNotes,   \* generateAISummary: combinedNotes
  aiResult,        \* routes.ts: aiResult
  llmLog,          \* the calls of groq.chat.completions.create, in order
  llmDone,         \* how many summarization calls have returned or thrown
  parsedLog,       \* what each summarization call handed to Promise.all
  qaReply,         \* the outcome of the question call
  notes,           \* MemStorage: notes
  currentId,       \* MemStorage: currentId
  responses,       \* what was sent on res, in order
  parked           \* the handler's locals for the requests that wait at an
                   \* await while another request's handler runs

sttVars == << i, results, batchResults, sttLog, sttDone >>

aiVars == << textChunks, ci, sumResults, combinedSummary, combinedNotes, llmLog,
            llmDone, parsedLog >>

storeVars == << notes, currentId >>

vars == << req, pc, faults, marksList, tempDir, chunks, i, results, batchResults,
           sttLog, sttDone, transcription, textChunks, ci, sumResults,
           combinedSummary, combinedNotes, aiResult, llmLog, llmDone, parsedLog,
           qaReply, notes, currentId, responses, parked >>

Pending == [k |-> "pending", v |-> 0]

Settled == [k |-> "settled", v |-> 0]

Rejected == [k |-> "rejected", v |-> 0]

Message(m) == [k |-> "message", v |-> m]

\* the handler's locals when it is entered
InitLocals ==
  /\ pc = "received"
  /\ marksList = << >>
  /\ tempDir = FALSE
  /\ chunks = << >>
  /\ i = 0
  /\ results = << >>
  /\ batchResults = << >>
  /\ sttLog = << >>
  /\ sttDone = 0
  /\ transcription = << >>
  /\ textChunks = << >>
  /\ ci = 0
  /\ sumResults = << >>
  /\ combinedSummary = << >>
  /\ combinedNotes = << >>
  /\ aiResult = Undefined
  /\ llmLog = << >>
  /\ llmDone = 0
  /\ parsedLog = << >>
  /\ qaReply = Undefined
  /\ responses = << >>

InitHandler ==
  /\ InitLocals
  /\ faults = 0
  /\ parked = << >>

\* constructor of MemStorage
InitStorage ==
  /\ notes = << >>
  /\ currentId = 1

Init ==
  /\ req \in Requests
  /\ InitHandler
  /\ InitStorage

\* the outcomes an external call may have: a failure only while the budget lasts
Outcomes(good, bad) == good \cup (IF faults < MaxFaults THEN bad ELSE {})

Charge(outcome, bad) == faults' = faults + (IF outcome \in bad THEN 1 ELSE 0)

\* the handler that sends its response twice
Respond_twice(status, body) ==
  /\ responses' = responses \o << [status |-> status, body |-> body],
                                   [status |-> status, body |-> body] >>
  /\ pc' = "done"

\* res.status(status).json(body), after which the handler returns
Respond(status, body) ==
  /\ responses' = Append(responses, [status |-> status, body |-> body])
  /\ pc' = "done"

\* a slice that starts one item early: items.slice(from - 1, from + BATCH_SIZE)
BatchOf_overlap(items, from) ==
  SubSeq(items, Max(from, 1), Min(from + BATCH_SIZE, Len(items)))

\* every remaining item at once
BatchOf_rest(items, from) == SubSeq(items, from + 1, Len(items))

\* items.slice(from, from + BATCH_SIZE)
BatchOf(items, from) == SubSeq(items, from + 1, Min(from + BATCH_SIZE, Len(items)))

\* the promises batch.map(...) hands to Promise.all
StartBatch(batch) == [p \in 1..Len(batch) |-> Pending]

AllSettled(batch) == \A p \in 1..Len(batch) : batch[p] # Pending

InFlight(batch) == {p \in 1..Len(batch) : batch[p] = Pending}

SummarizeCall(t) == [k |-> "summarize", v |-> t]

QuestionCall(summary) == [k |-> "questions", v |-> summary]

\* generateAISummary from its entry to its first await, for chunks of
\* maxLength characters
BeginSummaryWith(transcript, maxLength) ==
  LET cs == chunkText(transcript, maxLength)
      batch == BatchOf([t \in 1..Len(cs) |-> t], 0)
  IN /\ textChunks' = cs
     /\ ci' = 0
     /\ combinedSummary' = << >>
     /\ combinedNotes' = << >>
     /\ IF Len(cs) > 0
        THEN /\ sumResults' = StartBatch(batch)
             /\ llmLog' = llmLog \o [p \in 1..Len(batch) |-> SummarizeCall(batch[p])]
             /\ pc' = "summarizing"
        ELSE /\ sumResults' = << >>
             /\ llmLog' = Append(llmLog, QuestionCall(<< >>))
             /\ pc' = "questions"
     /\ UNCHANGED << llmDone, parsedLog, responses >>

\* generateAISummary from its entry to its first await
BeginSummary(transcript) == BeginSummaryWith(transcript, MAX_LENGTH)

\* the end of transcribeChunks and the handler up to its next await
FinishTranscribe(res) ==
  LET merged == MergeTranscript(res)
  IN /\ transcription' = merged
     /\ IF merged = << >>
        THEN /\ Respond(400, Message("No speech detected"))
             /\ UNCHANGED aiVars
        ELSE BeginSummary(merged)

\* transcribeChunks from its entry to its first await
BeginTranscribe(cks) ==
  LET batch == BatchOf(cks, 0)
  IN /\ i' = 0
     /\ results' = << >>
     /\ UNCHANGED sttDone
     /\ IF Len(cks) > 0
        THEN /\ batchResults' = StartBatch(batch)
             /\ sttLog' = batch
             /\ pc' = "transcribing"
             /\ UNCHANGED << transcription, aiVars, responses >>
        ELSE /\ batchResults' = << >>
             /\ sttLog' = << >>
             /\ FinishTranscribe(<< >>)

(* ------------------------------- actions ------------------------------- *)

ServerError == Message("Processing failed")

\* the speech service's text for a chunk
ServiceText(c) ==
  IF c \in DOMAIN req.audio THEN SegmentText(c, req.audio[c]) ELSE Null

\* values collected in the order the calls complete
SettleAt_completionOrder(batch, p, val) ==
  [batch EXCEPT ![MinOf(InFlight(batch))] = val]

\* a promise of Promise.all settles: its value lands at its own position
SettleAt(batch, p, val) == [batch EXCEPT ![p] = val]

\* the MulterError passed to next() when the file exceeds limits.fileSize: it
\* has a code and a message and neither status nor statusCode
FileTooLargeError ==
  [code |-> "LIMIT_FILE_SIZE", message |-> "File too large",
   status |-> Undefined, statusCode |-> Undefined]

\* index.ts 75: err.status || err.statusCode || 500
ErrorStatus(err) ==
  IF Truthy(err.status) THEN err.status
  ELSE IF Truthy(err.statusCode) THEN err.statusCode
  ELSE Num(500)

\* index.ts 76: err.message || "Internal Server Error"
ErrorMessage(err) ==
  IF err.message # "" THEN Message(err.message) ELSE Message("Internal Server Error")

\* routes.ts 97 and index.ts 73-86: upload.single("audio") rejects the
\* upload, the route handler is skipped and the error handler answers
UploadRejected ==
  /\ pc = "received"
  /\ req.tooLarge
  /\ Respond(ErrorStatus(FileTooLargeError).v[1], ErrorMessage(FileTooLargeError))
  /\ UNCHANGED << req, parked, faults, marksList, tempDir, chunks, sttVars, transcription,
                  aiVars, aiResult, qaReply, storeVars >>

\* the handler without its test of req.file
RouteStart_noFileCheck ==
  /\ pc = "received"
  /\ ~req.tooLarge
  /\ marksList' = ParseMarksList(req.marksList)
  /\ \E written \in Outcomes({"ok"}, {"throw"}) :
       /\ Charge(written, {"throw"})
       /\ IF written = "ok"
          THEN /\ tempDir' = TRUE
               /\ pc' = "probe"
               /\ UNCHANGED responses
          ELSE /\ tempDir' = FALSE
               /\ Respond(500, ServerError)
  /\ UNCHANGED << req, parked, chunks, sttVars, transcription, aiVars, aiResult, qaReply,
                  storeVars >>

\* routes.ts 98-141 and splitAudioIntoChunks 28-37: from the arrival of the
\* request to the await of ffprobe
RouteStart ==
  /\ pc = "received"
  /\ ~req.tooLarge
  /\ IF ~req.file
     THEN /\ Respond(400, Message("No audio file provided"))
          /\ UNCHANGED << faults, marksList, tempDir >>
     ELSE /\ marksList' = ParseMarksList(req.marksList)
          /\ \E written \in Outcomes({"ok"}, {"throw"}) :
               /\ Charge(written, {"throw"})
               /\ IF written = "ok"
                  THEN /\ tempDir' = TRUE
                       /\ pc' = "probe"
                       /\ UNCHANGED responses
                  ELSE /\ tempDir' = FALSE
                       /\ Respond(500, ServerError)
  /\ UNCHANGED << req, parked, chunks, sttVars, transcription, aiVars, aiResult, qaReply,
                  storeVars >>

\* the line ffprobe prints for a duration given in half seconds
ProbeText(halves) ==
  StrCat(FromChars(NatDigits(halves \div 2) \o << ".", IF halves % 2 = 1 THEN "5" ELSE "0" >>),
         StrCat(Rep("0", 5), Rep("\n", 1)))

NoDurationText == StrCat(FromChars(<< "N", "/", "A" >>), Rep("\n", 1))

\* the directory removed at the end of the try block instead of in finally
ProbeDone_noFinally ==
  /\ pc = "probe"
  /\ LET good == {Reply(StrV(ProbeText(req.halves)))}
         bad  == {Reply(StrV(NoDurationText)), Throw}
     IN \E out \in Outcomes(good, bad) :
          /\ Charge(out, bad)
          /\ UNCHANGED tempDir
          /\ IF out.k = "throw"
             THEN Respond(500, ServerError)
             ELSE /\ pc' = IF IsShortAudio(ParseFloat(out.v.v)) THEN "single" ELSE "segment"
                  /\ UNCHANGED responses
  /\ UNCHANGED << req, parked, marksList, chunks, sttVars, transcription, aiVars, aiResult,
                  qaReply, storeVars >>

\* splitAudioIntoChunks 35-52: ffprobe returns
ProbeDone ==
  /\ pc = "probe"
  /\ LET good == {Reply(StrV(ProbeText(req.halves)))}
         bad  == {Reply(StrV(NoDurationText)), Throw}
     IN \E out \in Outcomes(good, bad) :
          /\ Charge(out, bad)
          /\ IF out.k = "throw"
             THEN /\ tempDir' = FALSE
                  /\ Respond(500, ServerError)
             ELSE /\ pc' = IF IsShortAudio(ParseFloat(out.v.v)) THEN "single" ELSE "segment"
                  /\ UNCHANGED << tempDir, responses >>
  /\ UNCHANGED << req, parked, marksList, chunks, sttVars, transcription, aiVars, aiResult,
                  qaReply, storeVars >>

CeilDiv(a, b) == (a + b - 1) \div b

\* how many files the segment muxer writes for a duration in half seconds
\* with -segment_time CHUNK_DURATION
SegmentCount(halves) == CeilDiv(halves, 2 * CHUNK_DURATION)

\* the digits of %03d
Pad3(n) ==
  LET ds == NatDigits(n)
  IN [z \in 1..(3 - Len(ds)) |-> "0"] \o ds

ChunkPrefix == << "c", "h", "u", "n", "k", "_" >>

\* chunk_%03d.wav for the segment numbered n, counted from 0
ChunkName(n) == ChunkPrefix \o Pad3(n) \o << ".", "w", "a", "v" >>

InputName == << "i", "n", "p", "u", "t", ".", "w", "a", "v" >>

\* the files in tempDir when the segmenting ffmpeg has returned: the input
\* and one file per segment, whose buffer is the segment's position
SegmentFiles(halves) ==
  << [name |-> InputName, buffer |-> 0] >>
    \o [j \in 1..SegmentCount(halves) |-> [name |-> ChunkName(j - 1), buffer |-> j]]

\* rotations of a directory listing that are tried, forwards and backwards
MaxListings == 2

Rotate(seq, by) == [j \in 1..Len(seq) |-> seq[((j + by - 1) % Len(seq)) + 1]]

Reverse(seq) == [j \in 1..Len(seq) |-> seq[Len(seq) + 1 - j]]

\* fs.readdirSync: the entries in an order the file system chooses
ReadDir(files) ==
  {Rotate(files, by) : by \in 0..(Min(Len(files), MaxListings) - 1)}
    \cup {Reverse(Rotate(files, by)) : by \in 0..(Min(Len(files), MaxListings) - 1)}

\* f.startsWith(prefix)
StartsWith(name, prefix) ==
  Len(name) >= Len(prefix) /\ SubSeq(name, 1, Len(prefix)) = prefix

\* the characters of the file names in code unit order
Alphabet ==
  << ".", "0", "1", "2", "3", "4", "5", "6", "7", "8", "9", "_",
     "a", "c", "h", "i", "k", "n", "p", "t", "u", "v", "w" >>

CharCode(c) == CHOOSE n \in 1..Len(Alphabet) : Alphabet[n] = c

RECURSIVE NameLess(_, _)
\* the order of Array.prototype.sort() without a comparator
NameLess(a, b) ==
  IF b = << >> THEN FALSE
  ELSE IF a = << >> THEN TRUE
  ELSE IF Head(a) # Head(b) THEN CharCode(Head(a)) < CharCode(Head(b))
  ELSE NameLess(Tail(a), Tail(b))

\* .sort() on the file names
SortFiles(files) == SortSeq(files, LAMBDA f, g : NameLess(f.name, g.name))

\* splitAudioIntoChunks 54-58: the buffers of the chunk files, by name
ChunkBuffers(listing) ==
  LET kept   == SelectSeq(listing, LAMBDA f : StartsWith(f.name, ChunkPrefix))
      sorted == SortFiles(kept)
  IN [j \in 1..Len(sorted) |-> sorted[j].buffer]

\* a failure of ffmpeg caught inside splitAudioIntoChunks, which then
\* returns no chunks
EncodeDone_swallow ==
  /\ pc \in {"single", "segment"}
  /\ \E out \in Outcomes({"ok"}, {"throw"}), listing \in ReadDir(SegmentFiles(req.halves)) :
       /\ Charge(out, {"throw"})
       /\ tempDir' = FALSE
       /\ LET cks == IF out = "throw" THEN << >>
                     ELSE IF pc = "single" THEN << 1 >> ELSE ChunkBuffers(listing)
          IN /\ chunks' = cks
             /\ BeginTranscribe(cks)
  /\ UNCHANGED << req, parked, marksList, aiResult, qaReply, storeVars >>

\* splitAudioIntoChunks 44-61 and routes.ts 141-144: ffmpeg returns
EncodeDone ==
  /\ pc \in {"single", "segment"}
  /\ \E out \in Outcomes({"ok"}, {"throw"}), listing \in ReadDir(SegmentFiles(req.halves)) :
       /\ Charge(out, {"throw"})
       /\ tempDir' = FALSE
       /\ IF out = "throw"
          THEN /\ Respond(500, ServerError)
               /\ UNCHANGED << chunks, sttVars, transcription, aiVars >>
          ELSE LET cks == IF pc = "single" THEN << 1 >> ELSE ChunkBuffers(listing)
               IN /\ chunks' = cks
                  /\ BeginTranscribe(cks)
  /\ UNCHANGED << req, parked, marksList, aiResult, qaReply, storeVars >>

\* transcribeChunks 75-85: one transcribeAudio call returns or throws
TranscribeDone(p) ==
  /\ pc = "transcribing"
  /\ p \in InFlight(batchResults)
  /\ LET good == {Reply(ServiceText(chunks[i + p]))}
         bad  == {Throw}
     IN \E out \in Outcomes(good, bad) :
          /\ Charge(out, bad)
          /\ sttDone' = sttDone + 1
          /\ IF out.k = "throw"
             THEN /\ batchResults' = SettleAt(batchResults, p, Rejected)
                  /\ Respond(500, ServerError)
                  /\ UNCHANGED results
             ELSE LET br == SettleAt(batchResults, p, StrV(transcribeAudioText(out.v)))
                  IN /\ batchResults' = br
                     /\ UNCHANGED responses
                     /\ IF AllSettled(br)
                        THEN /\ results' = results \o [q \in 1..Len(br) |-> br[q].v]
                             /\ pc' = "stt_delay"
                        ELSE UNCHANGED << results, pc >>
  /\ UNCHANGED << req, parked, marksList, tempDir, chunks, i, sttLog, transcription, aiVars,
                  aiResult, qaReply, storeVars >>

\* a transcribeAudio call that outlives the rejected Promise.all
OrphanDone(p) ==
  /\ pc = "done"
  /\ p \in InFlight(batchResults)
  /\ batchResults' = SettleAt(batchResults, p, Settled)
  /\ sttDone' = sttDone + 1
  /\ UNCHANGED << req, parked, pc, faults, marksList, tempDir, chunks, i, results, sttLog,
                  transcription, aiVars, aiResult, qaReply, storeVars, responses >>

\* the loop that returns after its first batch
TranscribeDelayDone_oneBatch ==
  /\ pc = "stt_delay"
  /\ i' = i + BATCH_SIZE
  /\ FinishTranscribe(results)
  /\ UNCHANGED << batchResults, sttLog >>
  /\ UNCHANGED << req, parked, faults, marksList, tempDir, chunks, results, sttDone, aiResult,
                  qaReply, storeVars >>

\* transcribeChunks 85-88 and routes.ts 144-156: the delay after a batch ends
TranscribeDelayDone ==
  /\ pc = "stt_delay"
  /\ LET ni == i + BATCH_SIZE
         batch == BatchOf(chunks, ni)
     IN /\ i' = ni
        /\ IF ni < Len(chunks)
           THEN /\ batchResults' = StartBatch(batch)
                /\ sttLog' = sttLog \o batch
                /\ pc' = "transcribing"
                /\ UNCHANGED << transcription, aiVars, responses >>
           ELSE /\ FinishTranscribe(results)
                /\ UNCHANGED << batchResults, sttLog >>
  /\ UNCHANGED << req, parked, faults, marksList, tempDir, chunks, results, sttDone, aiResult,
                  qaReply, storeVars >>

\* generateAISummary 129-154: one summarization call returns or throws
SummarizeDone(p) ==
  /\ pc = "summarizing"
  /\ p \in InFlight(sumResults)
  /\ LET good == GoodSumReplies(ci + p)
         bad  == BadSumReplies(ci + p)
     IN \E reply \in Outcomes(good, bad) :
          /\ Charge(reply, bad)
          /\ llmDone' = llmDone + 1
          /\ LET sr == SettleAt(sumResults, p, SummarizeResult(reply))
                 c  == Combine(sr, [threw |-> FALSE, summary |-> combinedSummary,
                                    notes |-> combinedNotes])
             IN /\ sumResults' = sr
                /\ IF ~AllSettled(sr)
                   THEN UNCHANGED << combinedSummary, combinedNotes, parsedLog, pc,
                                     responses >>
                   ELSE /\ parsedLog' = parsedLog \o sr
                        /\ IF c.threw
                           THEN /\ Respond(500, ServerError)
                                /\ UNCHANGED << combinedSummary, combinedNotes >>
                           ELSE /\ combinedSummary' = c.summary
                                /\ combinedNotes' = c.notes
                                /\ pc' = "sum_delay"
                                /\ UNCHANGED responses
  /\ UNCHANGED << req, parked, marksList, tempDir, chunks, sttVars, transcription, textChunks,
                  ci, aiResult, llmLog, qaReply, storeVars >>

\* the summarization loop left after its first batch
SummarizeDelayDone_singleBatch ==
  /\ pc = "sum_delay"
  /\ ci' = ci + BATCH_SIZE
  /\ llmLog' = Append(llmLog, QuestionCall(combinedSummary))
  /\ pc' = "questions"
  /\ UNCHANGED << req, parked, faults, marksList, tempDir, chunks, sttVars, transcription,
                  textChunks, sumResults, combinedSummary, combinedNotes, llmDone,
                  parsedLog, aiResult, qaReply, storeVars, responses >>

\* generateAISummary 154-200: the delay after a batch ends
SummarizeDelayDone ==
  /\ pc = "sum_delay"
  /\ LET ni == ci + BATCH_SIZE
         batch == BatchOf([t \in 1..Len(textChunks) |-> t], ni)
     IN /\ ci' = ni
        /\ IF ni < Len(textChunks)
           THEN /\ sumResults' = StartBatch(batch)
                /\ llmLog' = llmLog \o [p \in 1..Len(batch) |-> SummarizeCall(batch[p])]
                /\ pc' = "summarizing"
           ELSE /\ llmLog' = Append(llmLog, QuestionCall(combinedSummary))
                /\ pc' = "questions"
                /\ UNCHANGED sumResults
  /\ UNCHANGED << req, parked, faults, marksList, tempDir, chunks, sttVars, transcription,
                  textChunks, combinedSummary, combinedNotes, llmDone, parsedLog,
                  aiResult, qaReply, storeVars, responses >>

\* currentId read without the increment
createNote_sameId(insertNote) ==
  LET id   == currentId
      note == [id |-> id,
               fileName |-> insertNote.fileName,
               transcription |-> insertNote.transcription,
               summary |-> Null,
               structuredNotes |-> Arr(<< >>),
               qaPairs |-> Arr(<< >>)]
  IN /\ currentId' = currentId
     /\ notes' = [n \in DOMAIN notes \cup {id} |-> IF n = id THEN note ELSE notes[n]]

\* the note is not put into the map
createNote_notStored(insertNote) ==
  /\ currentId' = currentId + 1
  /\ notes' = notes

\* MemStorage.createNote
createNote(insertNote) ==
  LET id   == currentId
      note == [id |-> id,
               fileName |-> insertNote.fileName,
               transcription |-> insertNote.transcription,
               summary |-> Null,
               structuredNotes |-> Arr(<< >>),
               qaPairs |-> Arr(<< >>)]
  IN /\ currentId' = currentId + 1
     /\ notes' = [n \in DOMAIN notes \cup {id} |-> IF n = id THEN note ELSE notes[n]]

\* generateAISummary 200-225 and routes.ts 152-166: the question call
\* returns or throws
QuestionsDone ==
  /\ pc = "questions"
  /\ \E reply \in Outcomes(GoodQAReplies, BadQAReplies) :
       /\ Charge(reply, BadQAReplies)
       /\ qaReply' = reply
       /\ LET combinedQA == FilterQA(QAFromReply(reply), marksList)
              result == [transcription   |-> StrV(transcription),
                         summary         |-> StrV(StrTrim(combinedSummary)),
                         structuredNotes |-> Arr(combinedNotes),
                         qaPairs         |-> Arr(combinedQA.items)]
          IN IF combinedQA.threw
             THEN /\ Respond(500, ServerError)
                  /\ UNCHANGED << aiResult, storeVars >>
             ELSE /\ aiResult' = [k |-> "AISummary", v |-> result]
                  /\ createNote([fileName        |-> "recording",
                                 transcription   |-> result.transcription,
                                 summary         |-> result.summary,
                                 structuredNotes |-> result.structuredNotes,
                                 qaPairs         |-> result.qaPairs])
                  /\ pc' = "saving"
                  /\ UNCHANGED responses
  /\ UNCHANGED << req, parked, marksList, tempDir, chunks, sttVars, transcription, aiVars >>

\* routes.ts 166-168: createNote's promise resolves
SaveDone ==
  /\ pc = "saving"
  /\ Respond(200, aiResult)
  /\ UNCHANGED << req, parked, faults, marksList, tempDir, chunks, sttVars, transcription,
                  aiVars, aiResult, qaReply, storeVars >>

Next ==
  \/ UploadRejected
  \/ RouteStart
  \/ ProbeDone
  \/ EncodeDone
  \/ \E p \in 1..BATCH_SIZE : TranscribeDone(p)
  \/ \E p \in 1..BATCH_SIZE : OrphanDone(p)
  \/ TranscribeDelayDone
  \/ \E p \in 1..BATCH_SIZE : SummarizeDone(p)
  \/ SummarizeDelayDone
  \/ QuestionsDone
  \/ SaveDone

Spec == Init /\ [][Next]_vars

\* the handler's first step on every kind of marksList field
InitMarks ==
  /\ req \in {[file |-> TRUE, tooLarge |-> FALSE, marksList |-> f, audio |-> << "word" >>,
               halves |-> 2 * DurationOf(<< "word" >>)] : f \in MarksFields(MaxMarks)}
  /\ InitHandler
  /\ InitStorage

NextMarks == RouteStart

SpecMarks == InitMarks /\ [][NextMarks]_vars

\* longest recording of the splitting runs, in seconds
MaxSeconds == 720

\* segments of the one very long recording: more than %03d numbers in
\* three digits
MaxSegments == 1001

\* recordings of every duration up to MaxSeconds, in steps of half a second,
\* and one of MaxSegments full segments, with speech in each segment
SplitRequests ==
  {[file |-> TRUE, tooLarge |-> FALSE, marksList |-> Undefined,
    audio |-> [j \in 1..SegmentCount(h) |-> "word"], halves |-> h] :
     h \in (0..(2 * MaxSeconds)) \cup {2 * CHUNK_DURATION * MaxSegments}}

InitSplit ==
  /\ req \in SplitRequests
  /\ InitHandler
  /\ InitStorage

\* the handler up to the return of splitAudioIntoChunks
NextSplit ==
  \/ RouteStart
  \/ ProbeDone
  \/ EncodeDone

SpecSplit == InitSplit /\ [][NextSplit]_vars

\* most createNote calls on one store
MaxNotes == 4

\* the notes handed to createNote
InsertNotes ==
  {[fileName        |-> "recording",
    transcription   |-> StrV(Rep(Letter[t], 1)),
    summary         |-> StrV(Rep(Letter[t], 2)),
    structuredNotes |-> Arr(<< >>),
    qaPairs         |-> Arr(<< >>)] : t \in 1..3}

\* one more request reaches routes.ts 160
StoreNote ==
  /\ currentId <= MaxNotes
  /\ \E n \in InsertNotes : createNote(n)
  /\ UNCHANGED << req, parked, pc, faults, marksList, tempDir, chunks, sttVars, transcription,
                  aiVars, aiResult, qaReply, responses >>

InitStore ==
  /\ req = NoFileRequest
  /\ InitHandler
  /\ InitStorage

NextStore == StoreNote

\* the store under a sequence of createNote calls
SpecStore == InitStore /\ [][NextStore]_vars

\* segments of the recordings of the transcript runs
MaxJoin == 3

\* recordings of MaxJoin segments of every kind
JoinRequests ==
  {[file |-> TRUE, tooLarge |-> FALSE, marksList |-> Undefined, audio |-> a,
    halves |-> 2 * DurationOf(a)] : a \in [1..MaxJoin -> SegmentKinds]}

InitJoin ==
  /\ req \in JoinRequests
  /\ InitHandler
  /\ InitStorage

\* the handler up to the return of transcribeChunks
NextJoin ==
  \/ RouteStart
  \/ ProbeDone
  \/ EncodeDone
  \/ \E p \in 1..BATCH_SIZE : TranscribeDone(p)
  \/ \E p \in 1..BATCH_SIZE : OrphanDone(p)
  \/ TranscribeDelayDone

SpecJoin == InitJoin /\ [][NextJoin]_vars

\* most sentences in a transcript handed to generateAISummary
MaxSentences == 3

\* lengths of a sentence, its full stop included
SentenceLengths == {2, 1750, 3499, 3500, 3501}

\* sentence j of a transcript: one letter repeated, then a full stop
Sentence(j, n) == StrCat(Rep(Letter[j], n - 1), Rep(".", 1))

\* transcripts of up to most sentences with one space between sentences
Transcripts(most) ==
  {StrJoin([j \in 1..Len(lens) |-> Sentence(j, lens[j])], Rep(" ", 1)) :
     lens \in UNION {[1..n -> SentenceLengths] : n \in 1..most}}

\* generateAISummary about to be entered with a transcript
InitText ==
  /\ req = NoFileRequest
  /\ pc = "generate"
  /\ transcription \in Transcripts(MaxSentences)
  /\ faults = 0
  /\ marksList = DefaultMarks
  /\ tempDir = FALSE
  /\ chunks = << >>
  /\ i = 0
  /\ results = << >>
  /\ batchResults = << >>
  /\ sttLog = << >>
  /\ sttDone = 0
  /\ textChunks = << >>
  /\ ci = 0
  /\ sumResults = << >>
  /\ combinedSummary = << >>
  /\ combinedNotes = << >>
  /\ aiResult = Undefined
  /\ llmLog = << >>
  /\ llmDone = 0
  /\ parsedLog = << >>
  /\ qaReply = Undefined
  /\ responses = << >>
  /\ parked = << >>
  /\ InitStorage

\* generateAISummary from its entry to its first await
GenerateStart ==
  /\ pc = "generate"
  /\ BeginSummary(transcription)
  /\ UNCHANGED << req, parked, faults, marksList, tempDir, chunks, sttVars, transcription,
                  aiResult, qaReply, storeVars >>

NextText == GenerateStart

SpecText == InitText /\ [][NextText]_vars

(* ------------- the older server (src/unnamed/part_002) ----------------- *)
(* Its texts are sequences of characters: "a" stands for any character    *)
(* that is neither white space nor a sentence ending.                     *)

SentenceEnd == {".", "!", "?"}

\* the first position of every match of /(?<=[.!?])\s+/ in a text
SeparatorStarts(text) ==
  {p \in 2..Len(text) : IsSpace(text[p]) /\ text[p - 1] \in SentenceEnd}

\* the last position of the white space that starts at position p
RunEnd(text, p) ==
  MinOf({q \in p..Len(text) : q = Len(text) \/ ~IsSpace(text[q + 1])})

RECURSIVE SplitSentencesFrom(_, _)
\* text.split(/(?<=[.!?])\s+/) of the text from position from on
SplitSentencesFrom(text, from) ==
  LET later == {p \in SeparatorStarts(text) : p >= from}
  IN IF later = {} THEN << SubSeq(text, from, Len(text)) >>
     ELSE LET p == MinOf(later)
          IN << SubSeq(text, from, p - 1) >>
               \o SplitSentencesFrom(text, RunEnd(text, p) + 1)

SplitSentences(text) == SplitSentencesFrom(text, 1)

\* sentence.split(/\s+/).length: one more than the runs of white space
WordCount(sentence) ==
  Cardinality({p \in 1..Len(sentence) :
                 IsSpace(sentence[p]) /\ (p = 1 \/ ~IsSpace(sentence[p - 1]))}) + 1

RECURSIVE JoinText(_, _)
\* Array.prototype.join on texts
JoinText(parts, sep) ==
  IF parts = << >> THEN << >>
  ELSE IF Len(parts) = 1 THEN parts[1]
  ELSE parts[1] \o sep \o JoinText(Tail(parts), sep)

RECURSIVE PackSentences_dropOverflow(_, _, _, _, _)
\* the sentence that starts a new chunk is left out
PackSentences_dropOverflow(sentences, targetWords, cks, currentChunk, currentWordCount) ==
  IF sentences = << >>
  THEN IF Len(currentChunk) > 0 THEN Append(cks, JoinText(currentChunk, << " " >>)) ELSE cks
  ELSE LET sentence == Head(sentences)
           sentenceWordCount == WordCount(sentence)
           full == currentWordCount + sentenceWordCount > targetWords /\ Len(currentChunk) > 0
       IN IF full
          THEN PackSentences_dropOverflow(Tail(sentences), targetWords,
                 Append(cks, JoinText(currentChunk, << " " >>)), << >>, 0)
          ELSE PackSentences_dropOverflow(Tail(sentences), targetWords, cks,
                 Append(currentChunk, sentence), currentWordCount + sentenceWordCount)

RECURSIVE PackSentences_noReset(_, _, _, _, _)
\* currentWordCount keeps growing after a chunk is pushed
PackSentences_noReset(sentences, targetWords, cks, currentChunk, currentWordCount) ==
  IF sentences = << >>
  THEN IF Len(currentChunk) > 0 THEN Append(cks, JoinText(currentChunk, << " " >>)) ELSE cks
  ELSE LET sentence == Head(sentences)
           sentenceWordCount == WordCount(sentence)
           full == currentWordCount + sentenceWordCount > targetWords /\ Len(currentChunk) > 0
       IN PackSentences_noReset(Tail(sentences), targetWords,
            IF full THEN Append(cks, JoinText(currentChunk, << " " >>)) ELSE cks,
            Append(IF full THEN << >> ELSE currentChunk, sentence),
            currentWordCount + sentenceWordCount)

RECURSIVE PackSentences(_, _, _, _, _)
RECURSIVE PackSentences_closeAtTarget(_, _, _, _, _)
\* the for loop of splitIntoChunks over the sentences left, and the push of
\* the last chunk after it
\* the packing that closes a span as soon as the target is reached
PackSentences_closeAtTarget(sentences, targetWords, cks, currentChunk, currentWordCount) ==
  IF sentences = << >>
  THEN IF Len(currentChunk) > 0 THEN Append(cks, JoinText(currentChunk, << " " >>)) ELSE cks
  ELSE LET sentence == Head(sentences)
           sentenceWordCount == WordCount(sentence)
           full == currentWordCount + sentenceWordCount >= targetWords /\ Len(currentChunk) > 0
       IN PackSentences_closeAtTarget(Tail(sentences), targetWords,
            IF full THEN Append(cks, JoinText(currentChunk, << " " >>)) ELSE cks,
            Append(IF full THEN << >> ELSE currentChunk, sentence),
            (IF full THEN 0 ELSE currentWordCount) + sentenceWordCount)

PackSentences(sentences, targetWords, cks, currentChunk, currentWordCount) ==
  IF sentences = << >>
  THEN IF Len(currentChunk) > 0 THEN Append(cks, JoinText(currentChunk, << " " >>)) ELSE cks
  ELSE LET sentence == Head(sentences)
           sentenceWordCount == WordCount(sentence)
           full == currentWordCount + sentenceWordCount > targetWords /\ Len(currentChunk) > 0
       IN PackSentences(Tail(sentences), targetWords,
            IF full THEN Append(cks, JoinText(currentChunk, << " " >>)) ELSE cks,
            Append(IF full THEN << >> ELSE currentChunk, sentence),
            (IF full THEN 0 ELSE currentWordCount) + sentenceWordCount)

splitIntoChunks(text, targetWords) ==
  PackSentences(SplitSentences(text), targetWords, << >>, << >>, 0)

\* most characters of a text given to splitIntoChunks
MaxText == 5

\* largest targetWords given to splitIntoChunks
MaxTarget == 3

TextChars == {"a", ".", " "}

Texts(most) == UNION {[1..n -> TextChars] : n \in 0..most}

\* calls of splitIntoChunks
SplitCalls(most, target) == [text : Texts(most), targetWords : 1..target]

\* a call of splitIntoChunks about to be made
InitWords ==
  /\ req \in SplitCalls(MaxText, MaxTarget)
  /\ InitHandler
  /\ InitStorage

\* the call of splitIntoChunks
SplitDone ==
  /\ pc = "received"
  /\ chunks' = splitIntoChunks(req.text, req.targetWords)
  /\ pc' = "done"
  /\ UNCHANGED << req, parked, faults, marksList, tempDir, sttVars, transcription, aiVars,
                  aiResult, qaReply, storeVars, responses >>

NextWords == SplitDone

SpecWords == InitWords /\ [][NextWords]_vars

\* most sentences in a transcript of 1500 words
MaxParts == 4

\* a sentence of n words: the word "a" n times, the last with a full stop
WordsSentence(n) ==
  [j \in 1..(2 * n) |-> IF j = 2 * n THEN "." ELSE IF j % 2 = 1 THEN "a" ELSE " "]

RECURSIVE SumOf(_)
SumOf(ns) == IF ns = << >> THEN 0 ELSE Head(ns) + SumOf(Tail(ns))

\* the ways to cut 1500 words into up to most sentences of 150, 300, ... words
SentenceWords(most) ==
  {ws \in UNION {[1..n -> {150 * k : k \in 1..10}] : n \in 1..most} : SumOf(ws) = 1500}

LongTexts(most) ==
  {JoinText([j \in 1..Len(ws) |-> WordsSentence(ws[j])], << " " >>) :
     ws \in SentenceWords(most)}

\* splitIntoChunks about to be called as processLongTranscript calls it
InitLong ==
  /\ req \in [text : LongTexts(MaxParts), targetWords : {600}]
  /\ InitHandler
  /\ InitStorage

NextLong == SplitDone

SpecLong == InitLong /\ [][NextLong]_vars

CHUNK_THRESHOLD == 1000

\* transcripts of one or two sentences with a word more or less than the
\* threshold
ThresholdTexts ==
  LET around == (CHUNK_THRESHOLD - 1)..(CHUNK_THRESHOLD + 1)
  IN {WordsSentence(n) : n \in around}
       \cup {JoinText(<< WordsSentence(500), WordsSentence(n - 500) >>, << " " >>) :
               n \in around}

\* the texts with and without a space before and after them
Padded(texts) ==
  {before \o text \o after :
     text \in texts, before \in {<< >>, << " " >>}, after \in {<< >>, << " " >>}}

\* what transcribeChunks hands to processLongTranscript
LegacyTranscripts == Padded(ThresholdTexts) \cup LongTexts(2)

SummarizeChunkCall(chunk) == [k |-> "summarizeChunk", v |-> chunk]

FinalContentCall(content) == [k |-> "generateFinalContent", v |-> content]

\* the mini-summary the model writes for chunk c
MiniSummary(c) == [j \in 1..c |-> "a"]

GoodMiniReplies(c) == { Reply(Text(MiniSummary(c))) }

\* the call fails, or the model answers without content
BadMiniReplies == { Throw, Reply(Null) }

\* summarizeChunk's return value: content || ""
MiniOf(reply) == IF reply.v.k = "text" THEN reply.v.v ELSE << >>

FinalObject ==
  Obj(GoodSummary(1).v \o << [key |-> "qaPairs", val |-> Arr(<< QAItem(1, Num(2)) >>)] >>)

GoodFinalReplies == { Reply(Text(Stringify(FinalObject))) }

BadFinalReplies ==
  { Throw,
    Reply(Undefined),
    Reply(Text(<< Prose >>)),
    Reply(Text(Stringify(Null))),
    Reply(Text(Stringify(Obj(<< >>)))) }

\* "No summary generated"
NoSummary == StrV(FromChars(<< "n", "o", "n", "e" >>))

\* a || b
OrElse(a, b) == IF Truthy(a) THEN a ELSE b

\* generateFinalContent after its call: JSON.parse(content || "{}") and the
\* three fields with their defaults; threw when the call or the parse
\* throws or the parsed value is null
generateFinalContent(reply) ==
  IF reply.k = "throw" THEN [threw |-> TRUE, val |-> Undefined]
  ELSE LET content == IF reply.v.k = "text" /\ reply.v.v # << >>
                      THEN reply.v.v
                      ELSE Stringify(Obj(<< >>))
           parsed  == JSONparse(content)
       IN IF ~parsed.ok \/ parsed.val.k \in {"null", "undefined"}
          THEN [threw |-> TRUE, val |-> Undefined]
          ELSE [threw |-> FALSE,
                val |-> [summary         |-> OrElse(Get(parsed.val, "summary"), NoSummary),
                         structuredNotes |-> OrElse(Get(parsed.val, "structuredNotes"), Arr(<< >>)),
                         qaPairs         |-> OrElse(Get(parsed.val, "qaPairs"), Arr(<< >>))]]

\* the mock summary, its one note and its one question
getMockResponse(text) ==
  [summary         |-> StrV(FromChars(<< "m", "o", "c", "k" >>)),
   structuredNotes |-> Arr(<< Obj(<< [key |-> "heading", val |-> StrV(FromChars(<< "m" >>))],
                                    [key |-> "points", val |-> Arr(<< StrV(FromChars(<< "p" >>)) >>)] >>) >>),
   qaPairs         |-> Arr(<< QAItem(1, Num(2)) >>)]

\* the older route with a transcript in hand, about to call
\* processLongTranscript
InitLegacy ==
  /\ req = [file |-> TRUE, tooLarge |-> FALSE, marksList |-> Undefined,
            audio |-> << >>, halves |-> 0]
  /\ pc = "process"
  /\ transcription \in LegacyTranscripts
  /\ faults = 0
  /\ marksList = << >>
  /\ tempDir = FALSE
  /\ chunks = << >>
  /\ i = 0
  /\ results = << >>
  /\ batchResults = << >>
  /\ sttLog = << >>
  /\ sttDone = 0
  /\ textChunks = << >>
  /\ ci = 0
  /\ sumResults = << >>
  /\ combinedSummary = << >>
  /\ combinedNotes = << >>
  /\ aiResult = Undefined
  /\ llmLog = << >>
  /\ llmDone = 0
  /\ parsedLog = << >>
  /\ qaReply = Undefined
  /\ responses = << >>
  /\ parked = << >>
  /\ InitStorage

\* the route from the end of processLongTranscript to the await of
\* createNote: content is the result, or the mock when it threw
ContentReady(outcome) ==
  LET content == IF outcome.threw THEN getMockResponse(transcription) ELSE outcome.val
  IN /\ parsedLog' = Append(parsedLog, outcome)
     /\ aiResult' = [k |-> "AISummary",
                     v |-> [transcription   |-> StrV(transcription),
                            summary         |-> content.summary,
                            structuredNotes |-> content.structuredNotes,
                            qaPairs         |-> content.qaPairs]]
     /\ createNote([fileName        |-> "recording",
                    transcription   |-> StrV(transcription),
                    summary         |-> content.summary,
                    structuredNotes |-> content.structuredNotes,
                    qaPairs         |-> content.qaPairs])
     /\ pc' = "saving"

\* processLongTranscript from its entry to its first await; sumResults
\* holds miniSummaries
ProcessStart ==
  /\ pc = "process"
  /\ LET wordCount == WordCount(transcription)
     IN IF wordCount <= CHUNK_THRESHOLD
        THEN /\ llmLog' = << FinalContentCall(transcription) >>
             /\ pc' = "final"
             /\ UNCHANGED chunks
        ELSE LET cks == splitIntoChunks(transcription, 600)
             IN /\ chunks' = cks
                /\ IF Len(cks) > 0
                   THEN /\ llmLog' = << SummarizeChunkCall(cks[1]) >>
                        /\ pc' = "mini"
                   ELSE /\ llmLog' = << FinalContentCall(<< >>) >>
                        /\ pc' = "final"
  /\ i' = 0
  /\ sumResults' = << >>
  /\ UNCHANGED << req, parked, faults, marksList, tempDir, results, batchResults, sttLog,
                  sttDone, transcription, textChunks, ci, combinedSummary,
                  combinedNotes, aiResult, llmDone, parsedLog, qaReply, storeVars,
                  responses >>

\* summarizeChunk returns or throws for chunk i
MiniSummaryDone ==
  /\ pc = "mini"
  /\ \E reply \in Outcomes(GoodMiniReplies(i + 1), BadMiniReplies) :
       /\ Charge(reply, BadMiniReplies)
       /\ qaReply' = reply
       /\ llmDone' = llmDone + 1
       /\ IF reply.k = "throw"
          THEN /\ ContentReady([threw |-> TRUE, val |-> Undefined])
               /\ UNCHANGED << i, sumResults, llmLog >>
          ELSE LET miniSummaries == Append(sumResults, MiniOf(reply))
               IN /\ sumResults' = miniSummaries
                  /\ i' = i + 1
                  /\ IF i + 1 < Len(chunks)
                     THEN /\ llmLog' = Append(llmLog, SummarizeChunkCall(chunks[i + 2]))
                          /\ pc' = "mini"
                     ELSE /\ llmLog' = Append(llmLog,
                               FinalContentCall(JoinText(miniSummaries, << "\n", "\n" >>)))
                          /\ pc' = "final"
                  /\ UNCHANGED << aiResult, parsedLog, storeVars >>
  /\ UNCHANGED << req, parked, marksList, tempDir, chunks, results, batchResults, sttLog,
                  sttDone, transcription, textChunks, ci, combinedSummary,
                  combinedNotes, responses >>

\* generateFinalContent returns or throws
FinalContentDone ==
  /\ pc = "final"
  /\ \E reply \in Outcomes(GoodFinalReplies, BadFinalReplies) :
       /\ Charge(reply, BadFinalReplies)
       /\ qaReply' = reply
       /\ llmDone' = llmDone + 1
       /\ ContentReady(generateFinalContent(reply))
  /\ UNCHANGED << req, parked, marksList, tempDir, chunks, i, results, batchResults, sttLog,
                  sttDone, transcription, textChunks, ci, sumResults, combinedSummary,
                  combinedNotes, llmLog, responses >>

NextLegacy ==
  \/ ProcessStart
  \/ MiniSummaryDone
  \/ FinalContentDone
  \/ SaveDone

SpecLegacy == InitLegacy /\ [][NextLegacy]_vars

\* most tokens after the object in a response of the model
MaxTail == 3

\* text after the object: prose and loose braces
Tails(most) == UNION {[1..n -> {Prose, P("{"), P("}")}] : n \in 0..most}

\* the objects a response holds; undefined when it holds none
ResponseObjects ==
  { Undefined, Obj(<< >>), GoodSummary(1), QAObject(Arr(<< QAItem(1, Num(2)) >>)) }

\* responses of the model: text, an object, text
Responses(most) ==
  [lead : {<< >>, << Prose >>}, object : ResponseObjects, tail : Tails(most)]

\* the content of a response
ContentOf(r) ==
  r.lead \o (IF r.object = Undefined THEN << >> ELSE Stringify(r.object)) \o r.tail

\* a response about to be given to safeJSONParse
InitParse ==
  /\ req \in Responses(MaxTail)
  /\ InitHandler
  /\ InitStorage

\* the call of safeJSONParse
SafeParseDone ==
  /\ pc = "received"
  /\ parsedLog' = << safeJSONParse(ContentOf(req)) >>
  /\ pc' = "done"
  /\ UNCHANGED << req, parked, faults, marksList, tempDir, chunks, sttVars, transcription,
                  textChunks, ci, sumResults, combinedSummary, combinedNotes, llmLog,
                  llmDone, aiResult, qaReply, storeVars, responses >>

NextParse == SafeParseDone

SpecParse == InitParse /\ [][NextParse]_vars

\* every call the handler waits for returns or throws and the event loop
\* runs every continuation that is ready: weak fairness of the steps of
\* the handler, where for ffprobe, the timer after a batch and the
\* language-model calls, whose steps are enabled whenever the handler is at
\* them, it says that the handler does not stay at them forever
CallsReturn ==
  /\ WF_vars(\/ UploadRejected
             \/ RouteStart
             \/ EncodeDone
             \/ \E p \in 1..BATCH_SIZE : TranscribeDone(p)
             \/ SummarizeDelayDone
             \/ SaveDone)
  /\ []<>(pc # "probe")
  /\ []<>(pc # "stt_delay")
  /\ []<>(pc # "summarizing")
  /\ []<>(pc # "questions")

\* the handler under that assumption
SpecFair == Spec /\ CallsReturn

\* longest transcript and largest maxLength given to chunkText
MaxCut == 6
MaxWidth == 4

RECURSIVE Pack(_)
\* the string of a sequence of characters
Pack(cs) == IF cs = << >> THEN << >> ELSE StrCat(Rep(Head(cs), 1), Pack(Tail(cs)))

\* the transcripts of up to most characters
CutTexts(most) == {Pack(cs) : cs \in UNION {[1..n -> {"a", "b"}] : n \in 0..most}}

\* the calls chunkText(transcript, maxLength)
CutCalls(most, width) == [transcript : CutTexts(most), maxLength : 1..width]

\* generateAISummary is entered with a transcript
InitCut ==
  /\ req \in CutCalls(MaxCut, MaxWidth)
  /\ pc = "generate"
  /\ transcription = req.transcript
  /\ faults = 0
  /\ marksList = DefaultMarks
  /\ tempDir = FALSE
  /\ chunks = << >>
  /\ i = 0
  /\ results = << >>
  /\ batchResults = << >>
  /\ sttLog = << >>
  /\ sttDone = 0
  /\ textChunks = << >>
  /\ ci = 0
  /\ sumResults = << >>
  /\ combinedSummary = << >>
  /\ combinedNotes = << >>
  /\ aiResult = Undefined
  /\ llmLog = << >>
  /\ llmDone = 0
  /\ parsedLog = << >>
  /\ qaReply = Undefined
  /\ responses = << >>
  /\ parked = << >>
  /\ InitStorage

\* generateAISummary 58-70: the transcript is cut and the first calls are made
CutDone ==
  /\ pc = "generate"
  /\ BeginSummaryWith(transcription, req.maxLength)
  /\ UNCHANGED << req, parked, faults, marksList, tempDir, chunks, sttVars, transcription,
                  aiResult, qaReply, storeVars >>

NextCut == CutDone

SpecCut == InitCut /\ [][NextCut]_vars

\* most pairs in the answer of the question call
MaxPairs == 3

\* the marks the model writes: 2, 5, 10 and the string "2"
AnswerMarks == { Num(2), Num(5), Num(10), StrV(Rep("2", 1)) }

\* the answers of the question call with up to most pairs
Answers(most) ==
  {Reply(Text(Stringify(QAObject(Arr([n \in 1..Len(f) |-> QAItem(n, f[n])]))))) :
     f \in UNION {[1..n -> AnswerMarks] : n \in 0..most}}

\* the marksList arguments of generateAISummary
MarksArguments ==
  { << Num(2), Num(10) >>, << Num(2), Num(5) >>, << Num(10) >>, << >> }

\* generateAISummary when its question call has answered
InitFilter ==
  /\ req = NoFileRequest
  /\ InitLocals
  /\ faults = 0
  /\ parked = << >>
  /\ InitStorage

\* generateAISummary 207-225: the answer is parsed and filtered
FilterDone ==
  /\ pc = "received"
  /\ \E answer \in Answers(MaxPairs), marks \in MarksArguments :
       /\ qaReply' = answer
       /\ marksList' = marks
       /\ LET combinedQA == FilterQA(QAFromReply(answer), marks)
          IN /\ ~combinedQA.threw
             /\ aiResult' = [k |-> "AISummary",
                             v |-> [transcription   |-> StrV(transcription),
                                    summary         |-> StrV(StrTrim(combinedSummary)),
                                    structuredNotes |-> Arr(combinedNotes),
                                    qaPairs         |-> Arr(combinedQA.items)]]
  /\ pc' = "done"
  /\ UNCHANGED << req, parked, faults, tempDir, chunks, sttVars, transcription, aiVars,
                  storeVars, responses >>

NextFilter == FilterDone

SpecFilter == InitFilter /\ [][NextFilter]_vars

\* the locals of the handler that is running
Locals ==
  [req |-> req, pc |-> pc, marksList |-> marksList, tempDir |-> tempDir,
   chunks |-> chunks, i |-> i, results |-> results, batchResults |-> batchResults,
   sttLog |-> sttLog, sttDone |-> sttDone, transcription |-> transcription,
   textChunks |-> textChunks, ci |-> ci, sumResults |-> sumResults,
   combinedSummary |-> combinedSummary, combinedNotes |-> combinedNotes,
   aiResult |-> aiResult, llmLog |-> llmLog, llmDone |-> llmDone,
   parsedLog |-> parsedLog, qaReply |-> qaReply, responses |-> responses]

\* the locals of a handler that has just been entered with request r
FreshLocals(r) ==
  [req |-> r, pc |-> "received", marksList |-> << >>, tempDir |-> FALSE,
   chunks |-> << >>, i |-> 0, results |-> << >>, batchResults |-> << >>,
   sttLog |-> << >>, sttDone |-> 0, transcription |-> << >>,
   textChunks |-> << >>, ci |-> 0, sumResults |-> << >>,
   combinedSummary |-> << >>, combinedNotes |-> << >>,
   aiResult |-> Undefined, llmLog |-> << >>, llmDone |-> 0,
   parsedLog |-> << >>, qaReply |-> Undefined, responses |-> << >>]

\* marksList stays with the handler that set it last
Resume_sharedMarks(a) ==
  /\ req' = a.req
  /\ pc' = a.pc
  /\ marksList' = marksList
  /\ tempDir' = a.tempDir
  /\ chunks' = a.chunks
  /\ i' = a.i
  /\ results' = a.results
  /\ batchResults' = a.batchResults
  /\ sttLog' = a.sttLog
  /\ sttDone' = a.sttDone
  /\ transcription' = a.transcription
  /\ textChunks' = a.textChunks
  /\ ci' = a.ci
  /\ sumResults' = a.sumResults
  /\ combinedSummary' = a.combinedSummary
  /\ combinedNotes' = a.combinedNotes
  /\ aiResult' = a.aiResult
  /\ llmLog' = a.llmLog
  /\ llmDone' = a.llmDone
  /\ parsedLog' = a.parsedLog
  /\ qaReply' = a.qaReply
  /\ responses' = a.responses

\* the handler of a waiting request goes on with its own locals
Resume(a) ==
  /\ req' = a.req
  /\ pc' = a.pc
  /\ marksList' = a.marksList
  /\ tempDir' = a.tempDir
  /\ chunks' = a.chunks
  /\ i' = a.i
  /\ results' = a.results
  /\ batchResults' = a.batchResults
  /\ sttLog' = a.sttLog
  /\ sttDone' = a.sttDone
  /\ transcription' = a.transcription
  /\ textChunks' = a.textChunks
  /\ ci' = a.ci
  /\ sumResults' = a.sumResults
  /\ combinedSummary' = a.combinedSummary
  /\ combinedNotes' = a.combinedNotes
  /\ aiResult' = a.aiResult
  /\ llmLog' = a.llmLog
  /\ llmDone' = a.llmDone
  /\ parsedLog' = a.parsedLog
  /\ qaReply' = a.qaReply
  /\ responses' = a.responses

\* the event loop turns from the request it was serving to a waiting one;
\* the store is the one object both handlers hold
Switch ==
  /\ \E k \in 1..Len(parked) :
       /\ Resume(parked[k])
       /\ parked' = [parked EXCEPT ![k] = Locals]
  /\ UNCHANGED << faults, storeVars >>

\* two uploads: one segment with marksList [2, 10], and a silent and a
\* spoken segment without a marksList
FirstRequest ==
  [file |-> TRUE, tooLarge |-> FALSE,
   marksList |-> Text(Stringify(Arr(<< Num(2), Num(10) >>))),
   audio |-> << "word" >>, halves |-> 2 * DurationOf(<< "word" >>)]

SecondRequest ==
  [file |-> TRUE, tooLarge |-> FALSE, marksList |-> Undefined,
   audio |-> << "silent", "word" >>, halves |-> 2 * DurationOf(<< "silent", "word" >>)]

\* both requests have arrived; one more external call may fail
InitTwo ==
  /\ \E r \in {<< FirstRequest, SecondRequest >>, << SecondRequest, FirstRequest >>} :
       /\ req = r[1]
       /\ parked = << FreshLocals(r[2]) >>
  /\ InitLocals
  /\ faults = MaxFaults - 1
  /\ InitStorage

NextTwo ==
  \/ Switch
  \/ RouteStart
  \/ ProbeDone
  \/ EncodeDone
  \/ \E p \in 1..BATCH_SIZE : TranscribeDone(p)
  \/ \E p \in 1..BATCH_SIZE : OrphanDone(p)
  \/ TranscribeDelayDone
  \/ \E p \in 1..BATCH_SIZE : SummarizeDone(p)
  \/ SummarizeDelayDone
  \/ QuestionsDone
  \/ SaveDone

SpecTwo == InitTwo /\ [][NextTwo]_vars

(* ------------------------------ properties ----------------------------- *)

Responded(status) == \E r \in 1..Len(responses) : responses[r].status = status

Returned == aiResult.k = "AISummary"

\* how many summarization calls were issued
SummarizeCalls == Len(SelectSeq(llmLog, LAMBDA call : call.k = "summarize"))

\* the characters of a string that are not white space, as runs
InkOf(s) == SelectSeq(s, LAMBDA r : ~IsSpace(r.c))

\* C1: every QAPair in the qaPairs returned by generateAISummary has marks
\* that is a member of marksList, whatever the language model answered
MarksFilterInvariant ==
  Returned =>
    \A q \in 1..Len(aiResult.v.qaPairs.v) :
      \E m \in 1..Len(marksList) :
        Get(aiResult.v.qaPairs.v[q], "marks") = marksList[m]

\* a result in which the filter kept one pair and dropped another
MarksFilterWitness ==
  /\ Returned
  /\ Len(aiResult.v.qaPairs.v) > 0
  /\ QAFromReply(qaReply).k = "array"
  /\ Len(QAFromReply(qaReply).v) > Len(aiResult.v.qaPairs.v)

AllSpoken == \A j \in DOMAIN req.audio : req.audio[j] \in {"word", "long"}

\* C2: when transcribeAudio fails for one chunk of a request with two or
\* more chunks whose other chunks carry speech, the request is not answered
\* 500 and goes on to summarization
ChunkFailureTolerated ==
  (/\ Len(chunks) >= 2
   /\ AllSpoken
   /\ \E p \in 1..Len(batchResults) : batchResults[p] = Rejected)
    => (~Responded(500) /\ (pc = "done" => llmLog # << >>))

\* C3: once the merged transcript is non-empty the request is answered 200
\* with that transcript, whatever the language-model calls do; nothing
\* reaches the 500 handler
TranscriptionAlwaysDelivered ==
  transcription # << >> =>
    /\ ~Responded(500)
    /\ pc = "done" =>
         /\ responses = << [status |-> 200, body |-> aiResult] >>
         /\ Returned
         /\ aiResult.v.transcription = StrV(transcription)

\* every chunk has been transcribed and every text is empty or white space
OnlySilence ==
  /\ Len(chunks) > 0
  /\ Len(results) = Len(chunks)
  /\ \A j \in 1..Len(results) : InkOf(results[j]) = << >>

\* C4: when every chunk's text is empty or blank the request is answered
\* 400, and no language-model call and no createNote call is made for it
NoSpeechStopsPipeline ==
  OnlySilence =>
    /\ pc \in {"stt_delay", "done"}
    /\ pc = "done" => responses = << [status |-> 400, body |-> Message("No speech detected")] >>
    /\ llmLog = << >>
    /\ notes = << >>
    /\ currentId = 1

\* a request of two chunks, one of them a blank, answered 400
NoSpeechWitness ==
  /\ OnlySilence
  /\ Len(chunks) = 2
  /\ \E j \in 1..2 : results[j] # << >>
  /\ pc = "done"
  /\ Responded(400)

\* the run of speech in chunk c of the recording; length 0 when it has none
SpeechRun(c) ==
  IF c \in DOMAIN req.audio /\ req.audio[c] = "word" THEN [c |-> Letter[c], n |-> 1]
  ELSE IF c \in DOMAIN req.audio /\ req.audio[c] = "long" THEN [c |-> Letter[c], n |-> LongLen]
  ELSE [c |-> " ", n |-> 0]

\* C5: the merged transcript holds the chunks' texts in chunk index order,
\* whatever the order in which the calls of a batch completed
TranscriptInChunkOrder ==
  transcription # << >> =>
    InkOf(transcription) =
      SelectSeq([j \in 1..Len(chunks) |-> SpeechRun(chunks[j])], LAMBDA r : r.n > 0)

\* a transcript merged from more than one batch
TranscriptOrderWitness ==
  /\ transcription # << >>
  /\ Len(chunks) > BATCH_SIZE
  /\ Len(InkOf(transcription)) = Len(chunks)

\* C6: at most BATCH_SIZE transcribeAudio calls and at most BATCH_SIZE
\* summarization calls are in flight; a call is issued only when every
\* earlier call has completed, and after the first batch only by the step
\* that ends the delay
BatchSynchronous ==
  /\ [](/\ Len(sttLog) - sttDone <= BATCH_SIZE
        /\ SummarizeCalls - llmDone <= BATCH_SIZE)
  /\ [][/\ Len(sttLog') > Len(sttLog) =>
             /\ sttDone = Len(sttLog)
             /\ Len(sttLog) > 0 => pc = "stt_delay"
        /\ SummarizeCalls' > SummarizeCalls =>
             /\ llmDone = SummarizeCalls
             /\ SummarizeCalls > 0 => pc = "sum_delay"]_vars

\* the second summarization batch in flight after two transcription batches
SecondBatchWitness ==
  /\ pc = "summarizing"
  /\ ci = BATCH_SIZE
  /\ InFlight(sumResults) # {}
  /\ Len(chunks) > BATCH_SIZE

NoteHeadings == {Get(combinedNotes[n], "heading") : n \in 1..Len(combinedNotes)}

InSummary(t) == \E r \in 1..Len(combinedSummary) : combinedSummary[r].c = Letter[t]

\* C7: a summarization call that yields null adds nothing to the combined
\* summary and notes, the batches go on to the question call, and the other
\* chunks' summaries and notes are in the result
FailedCallContributesNothing ==
  /\ \A t \in 1..Len(parsedLog) :
       parsedLog[t] = Null =>
         (~InSummary(t) /\ StrV(Rep(Letter[t], 1)) \notin NoteHeadings)
  /\ (\A t \in 1..Len(parsedLog) : parsedLog[t] \in {Null, GoodSummary(t)}) =>
       /\ \A t \in 1..Len(parsedLog) :
            parsedLog[t] = GoodSummary(t) =>
              (InSummary(t) /\ StrV(Rep(Letter[t], 1)) \in NoteHeadings)
       /\ (0 < Len(parsedLog) /\ Len(parsedLog) < Len(textChunks)) =>
            pc \in {"sum_delay", "summarizing"}
       /\ (0 < Len(parsedLog) /\ pc = "done") => qaReply # Undefined

\* a result built from two batches in which a call of the first batch failed
FailedCallWitness ==
  /\ Returned
  /\ Len(parsedLog) > BATCH_SIZE
  /\ \E t \in 1..BATCH_SIZE : parsedLog[t] = Null
  /\ \E t \in 1..Len(parsedLog) : parsedLog[t] = GoodSummary(t)
  /\ Responded(200)

\* the question call threw, had no content, or its text did not parse
QuestionCallGaveNothing ==
  /\ qaReply # Undefined
  /\ \/ qaReply.k = "throw"
     \/ qaReply.v.k # "text"
     \/ qaReply.v.v = << >>
     \/ safeJSONParse(qaReply.v.v) = Null

\* C8: when the question call gives nothing generateAISummary still returns,
\* with no qaPairs and with the accumulated summary and notes
QuestionFailureHarmless ==
  QuestionCallGaveNothing =>
    /\ Returned
    /\ ~Responded(500)
    /\ aiResult.v.qaPairs = Arr(<< >>)
    /\ aiResult.v.summary = StrV(StrTrim(combinedSummary))
    /\ aiResult.v.structuredNotes = Arr(combinedNotes)

\* a result with a summary and notes whose question call threw
QuestionFailureWitness ==
  /\ qaReply = Throw
  /\ Returned
  /\ combinedSummary # << >>
  /\ combinedNotes # << >>
  /\ Responded(200)

\* C9: the marks list passed to generateAISummary is never empty
MarksListNeverEmpty == llmLog # << >> => marksList # << >>

\* the positions of the valid entries of a submitted array
ValidPositions(arr) == {n \in 1..Len(arr) : Positive(NumberOf(arr[n]))}

SubmittedArray == JSONparse(req.marksList.v).val.v

SubmittedIsArray ==
  /\ req.marksList.k = "text"
  /\ JSONparse(req.marksList.v).ok
  /\ JSONparse(req.marksList.v).val.k = "array"

\* C10: the marks list has at most 2 entries, each a number greater than 0,
\* and for a submitted array they are its first two valid entries in order
MarksListTruncated ==
  (pc # "received" /\ req.file) =>
    /\ Len(marksList) <= 2
    /\ \A m \in 1..Len(marksList) : Positive(marksList[m])
    /\ SubmittedIsArray =>
         /\ Len(marksList) = Min(2, Cardinality(ValidPositions(SubmittedArray)))
         /\ \A m \in 1..Len(marksList) :
              \E n \in ValidPositions(SubmittedArray) :
                /\ marksList[m] = NumberOf(SubmittedArray[n])
                /\ Cardinality({n2 \in ValidPositions(SubmittedArray) : n2 < n}) = m - 1

\* three valid entries behind an invalid one, cut to the first two
MarksListWitness ==
  /\ pc = "probe"
  /\ SubmittedIsArray
  /\ Cardinality(ValidPositions(SubmittedArray)) = 3
  /\ 1 \notin ValidPositions(SubmittedArray)
  /\ Len(marksList) = 2
  /\ marksList[1] # marksList[2]

IsInteger(x) == x.k = "number" /\ x.v[2] = 1

\* C11: the marks list passed to generateAISummary holds integers only and
\* no value twice
MarksListDistinctIntegers ==
  (pc # "received" /\ req.file) =>
    /\ \A m \in 1..Len(marksList) : IsInteger(marksList[m])
    /\ \A m, n \in 1..Len(marksList) : marksList[m] = marksList[n] => m = n

\* the stage a request is in: Received, Splitting, Transcribing, Summarizing,
\* GeneratingQuestions, Aggregated, responded
StageOf(at) ==
  CASE at = "received" -> 0
    [] at \in {"probe", "single", "segment"} -> 1
    [] at \in {"transcribing", "stt_delay"} -> 2
    [] at \in {"summarizing", "sum_delay"} -> 3
    [] at = "questions" -> 4
    [] at = "saving" -> 5
    [] at = "done" -> 6

QuestionCalls == Len(SelectSeq(llmLog, LAMBDA call : call.k = "questions"))

\* C12: a summarization call is issued only when every chunk's transcription
\* call has completed, the question call only when every text chunk's
\* summarization call has completed, the result is sent only when the
\* question call has finished, and the request never returns to a stage it
\* has left
StagesInOrder ==
  /\ [](/\ SummarizeCalls > 0 =>
             /\ Len(sttLog) = Len(chunks)
             /\ sttDone = Len(sttLog)
        /\ QuestionCalls > 0 =>
             /\ QuestionCalls = 1
             /\ SummarizeCalls = Len(textChunks)
             /\ llmDone = SummarizeCalls
        /\ Responded(200) =>
             /\ qaReply # Undefined
             /\ pc = "done"
        /\ StageOf(pc) = 2 => llmLog = << >>
        /\ StageOf(pc) = 3 => QuestionCalls = 0
        /\ StageOf(pc) < 6 => responses = << >>)
  /\ [][StageOf(pc') >= StageOf(pc)]_vars

\* a request of two transcription batches and two summarization batches
\* that went through every stage
StagesWitness ==
  /\ pc = "done"
  /\ Responded(200)
  /\ Len(chunks) > BATCH_SIZE
  /\ Len(textChunks) > BATCH_SIZE
  /\ QuestionCalls = 1

\* the text chunks the summarization calls were issued for, in order
SummarizedChunks ==
  LET calls == SelectSeq(llmLog, LAMBDA call : call.k = "summarize")
  IN [a \in 1..Len(calls) |-> calls[a].v]

NoRepeat(seq) == \A a, b \in 1..Len(seq) : seq[a] = seq[b] => a = b

TempDirRemoved ==
  /\ StageOf(pc) # 1 => ~tempDir
  /\ StageOf(pc) = 1 => tempDir

\* splitAudioIntoChunks returned the segments of a long recording
TempDirWitness ==
  /\ pc = "transcribing"
  /\ Len(chunks) > 1
  /\ ~tempDir

\* ffprobe printed a duration of zero, or text that is no number: before
\* ffmpeg returns, the only call that can have failed is ffprobe
ProbedNoDuration ==
  /\ req.file
  /\ StageOf(pc) >= 1
  /\ \/ req.halves = 0
     \/ pc \in {"single", "segment"} /\ faults > 0

\* C15: when the probed duration is zero or no number, splitAudioIntoChunks
\* fails: it goes on neither to re-encode nor to segment the input and
\* returns no chunks
DurationErrorStops ==
  ProbedNoDuration =>
    /\ pc \notin {"single", "segment"}
    /\ sttLog = << >>
    /\ pc \in {"probe", "done"}
    /\ pc = "done" => Responded(500)

\* C16: when ffprobe and ffmpeg succeed on audio of duration D,
\* splitAudioIntoChunks takes the segmenting path exactly when
\* D > CHUNK_DURATION, returns 1 buffer when D <= CHUNK_DURATION and
\* otherwise the n buffers with (n - 1) * CHUNK_DURATION < D <=
\* n * CHUNK_DURATION in the order of the segments; 600 seconds give 4
SplitByDuration ==
  (req.file /\ faults = 0) =>
    /\ pc = "single" => req.halves <= 2 * CHUNK_DURATION
    /\ pc = "segment" => req.halves > 2 * CHUNK_DURATION
    /\ StageOf(pc) >= 2 =>
         /\ req.halves <= 2 * CHUNK_DURATION => chunks = << 1 >>
         /\ req.halves > 2 * CHUNK_DURATION =>
              LET n == Len(chunks)
              IN /\ 2 * CHUNK_DURATION * (n - 1) < req.halves
                 /\ req.halves <= 2 * CHUNK_DURATION * n
                 /\ chunks = [j \in 1..n |-> j]
         /\ req.halves = 2 * 600 => Len(chunks) = 4

\* ffprobe or ffmpeg fails in this step
ToolFailureStep ==
  /\ pc \in {"probe", "single", "segment"}
  /\ faults' > faults
  /\ pc' \notin {"single", "segment"}

\* the request ended while its audio was being split
EndedInSplit == pc = "done" /\ req.file /\ chunks = << >> /\ sttLog = << >>

\* C17: when ffprobe or ffmpeg fails during splitting, the request is
\* answered 500 in that step, and no transcription, language-model or storage
\* call is made for it then or later
ToolFailureFatal ==
  /\ [][ToolFailureStep =>
          /\ pc' = "done"
          /\ responses' = << [status |-> 500, body |-> ServerError] >>
          /\ sttLog' = << >>
          /\ llmLog' = << >>
          /\ notes' = << >>]_vars
  /\ [][EndedInSplit => (sttLog' = << >> /\ llmLog' = << >> /\ notes' = << >>)]_vars

\* a long recording whose splitting failed
ToolFailureWitness ==
  /\ EndedInSplit
  /\ req.halves > 2 * CHUNK_DURATION
  /\ faults = 1
  /\ Responded(500)
  /\ llmLog = << >>
  /\ notes = << >>

\* no stage of the pipeline has started
NothingStarted ==
  /\ ~tempDir
  /\ chunks = << >>
  /\ sttLog = << >>
  /\ llmLog = << >>
  /\ notes = << >>

\* C18: an upload whose file exceeds the size limit is answered 413 and
\* starts no stage of the pipeline
TooLargeAnswered413 ==
  req.tooLarge =>
    /\ NothingStarted
    /\ pc \in {"received", "done"}
    /\ pc = "done" => (Len(responses) = 1 /\ responses[1].status = 413)

\* C19: a request without an audio file is answered 400 with a message, and
\* no splitting, transcription, language-model or storage call is made
NoFileAnswered400 ==
  ~req.file =>
    /\ NothingStarted
    /\ marksList = << >>
    /\ pc \in {"received", "done"}
    /\ pc = "done" =>
         responses = << [status |-> 400, body |-> Message("No audio file provided")] >>

\* the request without a file has been answered
NoFileWitness ==
  /\ ~req.file
  /\ pc = "done"
  /\ Responded(400)
  /\ NothingStarted

\* C20: the note stored by createNote holds the result it was given: the
\* file name, the transcription, the summary, the structured notes and the
\* question/answer pairs
StoredNoteIsFull ==
  Returned =>
    /\ DOMAIN notes = {1}
    /\ notes[1].fileName = "recording"
    /\ notes[1].transcription = aiResult.v.transcription
    /\ notes[1].summary = aiResult.v.summary
    /\ notes[1].structuredNotes = aiResult.v.structuredNotes
    /\ notes[1].qaPairs = aiResult.v.qaPairs

\* C21: the k-th createNote call stores its note under id k, counted from 1,
\* the stored ids are distinct, and no stored note is removed or overwritten
StoreAppendOnly ==
  /\ [](/\ DOMAIN notes = 1..Cardinality(DOMAIN notes)
        /\ \A k \in DOMAIN notes : notes[k].id = k
        /\ currentId = Cardinality(DOMAIN notes) + 1)
  /\ [][/\ \A k \in DOMAIN notes : k \in DOMAIN notes' /\ notes'[k] = notes[k]
        /\ DOMAIN notes' \ DOMAIN notes \subseteq {Cardinality(DOMAIN notes) + 1}]_vars

\* three notes are stored, the first two of them with the same content
StoreWitness ==
  /\ DOMAIN notes = 1..3
  /\ notes[1].transcription = notes[2].transcription
  /\ notes[3].transcription # notes[1].transcription

\* the text chunks whose summarization call gave a result
Contributing ==
  SelectSeq([t \in 1..Len(parsedLog) |-> t], LAMBDA t : parsedLog[t] # Null)

\* every result has a summary text and an array of notes
PartialsWellFormed ==
  \A t \in 1..Len(parsedLog) :
    parsedLog[t] # Null =>
      /\ Get(parsedLog[t], "summary").k = "string"
      /\ Get(parsedLog[t], "structuredNotes").k = "array"

RECURSIVE ConcatNotes(_)
ConcatNotes(ts) ==
  IF ts = << >> THEN << >>
  ELSE Get(parsedLog[Head(ts)], "structuredNotes").v \o ConcatNotes(Tail(ts))

\* C22: whatever the order in which the calls completed, the result of
\* text chunk t is taken at position t, the summary returned is the summary
\* texts of the contributing chunks in chunk order with one space between
\* them, and structuredNotes is their notes arrays in chunk order
PartialsMergedInOrder ==
  (Returned /\ PartialsWellFormed) =>
    /\ \A t \in 1..Len(parsedLog) : parsedLog[t] # Null => parsedLog[t] = GoodSummary(t)
    /\ aiResult.v.summary.v =
         StrJoin([j \in 1..Len(Contributing) |->
                    Get(parsedLog[Contributing[j]], "summary").v], Rep(" ", 1))
    /\ aiResult.v.structuredNotes.v = ConcatNotes(Contributing)

\* seven text chunks in two batches, all of them contributing
PartialsWitness ==
  /\ Returned
  /\ PartialsWellFormed
  /\ Len(parsedLog) > BATCH_SIZE
  /\ Len(Contributing) = Len(parsedLog)
  /\ Len(aiResult.v.structuredNotes.v) = Len(parsedLog)

\* the texts of the chunks, in chunk order, without the empty ones
SpokenTexts ==
  SelectSeq([j \in 1..Len(chunks) |-> transcribeAudioText(ServiceText(chunks[j]))],
            LAMBDA text : text # << >>)

\* transcribeChunks has returned
Transcribed ==
  /\ chunks # << >>
  /\ Len(results) = Len(chunks)
  /\ pc \notin {"transcribing", "stt_delay"}

\* C23: the transcript is the chunks' non-empty texts in chunk order with
\* one separator between neighbours; an empty text adds no separator
TranscriptSingleSeparator ==
  Transcribed => transcription = StrTrim(StrJoin(SpokenTexts, Rep("\n", 2)))

\* position p of the text has characters of one sentence on both sides
InsideSentence(text, p) ==
  LET before == StrSlice(text, p - 1, p)
      at     == StrSlice(text, p, p + 1)
  IN /\ before # << >>
     /\ at # << >>
     /\ before[1].c \notin SentenceEnd
     /\ ~IsSpace(before[1].c)
     /\ ~IsSpace(at[1].c)

RECURSIVE LengthOfFirst(_, _)
\* characters in the first t chunks
LengthOfFirst(cs, t) ==
  IF t = 0 THEN 0 ELSE StrLen(cs[t]) + LengthOfFirst(cs, t - 1)

\* C24: no boundary between two text chunks sent to summarization falls
\* inside a sentence of the transcript
ChunksEndAtSentences ==
  \A t \in 1..(Len(textChunks) - 1) :
    ~InsideSentence(transcription, LengthOfFirst(textChunks, t))

RECURSIVE Normalize(_)
\* a text with every run of white space replaced by one space
Normalize(text) ==
  IF text = << >> THEN << >>
  ELSE IF IsSpace(Head(text))
       THEN IF Len(text) > 1 /\ IsSpace(text[2]) THEN Normalize(Tail(text))
            ELSE << " " >> \o Normalize(Tail(text))
       ELSE << Head(text) >> \o Normalize(Tail(text))

\* splitIntoChunks has returned
SplitReturned == pc = "done" /\ "text" \in DOMAIN req

\* C25: the chunks of splitIntoChunks joined in order with single spaces
\* have the sentences of the input, each once and in the input's order, and
\* are the input up to the width of its white space
ChunksKeepSentences ==
  SplitReturned =>
    LET joined == JoinText(chunks, << " " >>)
    IN /\ SplitSentences(joined) = SplitSentences(req.text)
       /\ Normalize(joined) = Normalize(req.text)

\* two chunks, one of them with two sentences
ChunksKeepWitness ==
  /\ SplitReturned
  /\ Len(chunks) >= 2
  /\ \E c \in 1..Len(chunks) : Len(SplitSentences(chunks[c])) >= 2

\* C26: splitIntoChunks returns no empty chunk, for the empty text and for
\* a text of white space too
NoEmptyChunk ==
  SplitReturned => \A c \in 1..Len(chunks) : chunks[c] # << >>

RECURSIVE SentencesOf(_)
\* the sentences of the chunks, chunk after chunk
SentencesOf(cks) ==
  IF cks = << >> THEN << >> ELSE SplitSentences(Head(cks)) \o SentencesOf(Tail(cks))

\* every chunk is a run of whole sentences of the text
WholeSentences == SentencesOf(chunks) = SplitSentences(req.text)

\* no sentence of the text has more than targetWords words
ShortSentences ==
  \A n \in 1..Len(SplitSentences(req.text)) :
    WordCount(SplitSentences(req.text)[n]) <= req.targetWords

Words(text) ==
  Cardinality({p \in 1..Len(text) :
                 ~IsSpace(text[p]) /\ (p = 1 \/ IsSpace(text[p - 1]))})

\* processLongTranscript has returned a result
ProcessReturned == parsedLog # << >> /\ ~parsedLog[1].threw

\* processLongTranscript has thrown
ProcessThrew == parsedLog # << >> /\ parsedLog[1].threw

MiniCalls == SelectSeq(llmLog, LAMBDA call : call.k = "summarizeChunk")

\* C28: with at most 1000 words processLongTranscript issues one call,
\* generateFinalContent on the whole transcript, and never a mini-summary
\* call; with more than 1000 words a run that returns has issued one
\* mini-summary call per text chunk in chunk order and then one
\* generateFinalContent call on the mini-summaries joined in chunk order
StrategyByWordCount ==
  LET cks == splitIntoChunks(transcription, 600)
  IN IF Words(transcription) <= 1000
     THEN /\ MiniCalls = << >>
          /\ pc # "process" => llmLog = << FinalContentCall(transcription) >>
     ELSE ProcessReturned =>
            llmLog = [c \in 1..Len(cks) |-> SummarizeChunkCall(cks[c])]
                       \o << FinalContentCall(JoinText(sumResults, << "\n", "\n" >>)) >>

\* the request was answered 200 with the mock and the transcript
MockAnswered ==
  /\ Len(responses) = 1
  /\ responses[1].status = 200
  /\ responses[1].body.v =
       [transcription   |-> StrV(transcription),
        summary         |-> getMockResponse(transcription).summary,
        structuredNotes |-> getMockResponse(transcription).structuredNotes,
        qaPairs         |-> getMockResponse(transcription).qaPairs]

\* the note stored has what the answer has
AnswerStored ==
  /\ DOMAIN notes = {1}
  /\ \A f \in {"transcription", "summary", "structuredNotes", "qaPairs"} :
       notes[1][f] = responses[1].body.v[f]

\* when processLongTranscript threw, the finished request was answered as
\* MockAnswered says
MockAnsweredAlways == (ProcessThrew /\ pc = "done") => MockAnswered

\* C29: when processLongTranscript throws, the request is answered 200 with
\* the mock summary, notes and questions and the transcript, and that
\* result is stored
MockAnsweredAndStored ==
  (ProcessThrew /\ pc = "done") => (MockAnswered /\ AnswerStored)

\* some stretch of the content is a JSON object
HoldsObject(content) ==
  \E a \in 1..Len(content) : \E b \in a..Len(content) :
    /\ JSONparse(SubSeq(content, a, b)).ok
    /\ JSONparse(SubSeq(content, a, b)).val.k = "object"

\* C30: for a response that is text, one JSON object and text again, the
\* text after it holding braces or not, safeJSONParse returns that object;
\* for a response that holds no object it returns null
ParseToleratesText ==
  (pc = "done" /\ "object" \in DOMAIN req) =>
    IF req.object # Undefined THEN parsedLog[1] = req.object
    ELSE ~HoldsObject(ContentOf(req)) => parsedLog[1] = Null

\* C31: a request answered 200 has had createNote called once, in a step
\* before the one that sends the response; a request answered 400 or 500
\* has had no createNote call; the body of the 200 response is the result
\* generateAISummary returned
SavedBeforeAnswered ==
  /\ [](/\ Responded(200) =>
             /\ Cardinality(DOMAIN notes) = 1
             /\ currentId = 2
             /\ Returned
             /\ responses = << [status |-> 200, body |-> aiResult] >>
        /\ (Responded(400) \/ Responded(500)) =>
             /\ DOMAIN notes = {}
             /\ currentId = 1)
  /\ [][(notes' # notes \/ currentId' # currentId) =>
          /\ responses' = << >>
          /\ DOMAIN notes = {}
          /\ aiResult'.k = "AISummary"]_vars

\* a request answered 200 with a result that has notes and questions
SavedWitness ==
  /\ Responded(200)
  /\ DOMAIN notes = {1}
  /\ Len(aiResult.v.structuredNotes.v) > 0
  /\ Len(aiResult.v.qaPairs.v) > 0

\* the handlers' locals: the running one first
Activations == << Locals >> \o parked

Answered200(a) == a.responses # << >> /\ a.responses[1].status = 200

\* the transcript of the request's own recording
OwnTranscript(a) ==
  MergeTranscript([j \in 1..Len(a.req.audio) |->
                     transcribeAudioText(SegmentText(j, a.req.audio[j]))])

\* what the request's own summarization calls gave
OwnPartials(a) == SelectSeq(a.parsedLog, LAMBDA x : x # Null)

OwnPartialsWellFormed(a) ==
  \A t \in 1..Len(OwnPartials(a)) :
    /\ Get(OwnPartials(a)[t], "summary").k = "string"
    /\ Get(OwnPartials(a)[t], "structuredNotes").k = "array"

RECURSIVE NotesOf(_)
NotesOf(partials) ==
  IF partials = << >> THEN << >>
  ELSE Get(Head(partials), "structuredNotes").v \o NotesOf(Tail(partials))

\* the requests whose handler has called createNote
Saved == {n \in 1..Len(Activations) :
            Activations[n].pc = "saving" \/ Answered200(Activations[n])}

\* C32: with two requests in progress at once, a 200 response has the
\* transcript of its own recording, the summary and notes of its own
\* summarization calls and the questions of its own question call filtered
\* by its own marksList; each request that reached createNote has one note
\* of its own, and the ids of the notes are distinct
RequestsIsolated ==
  /\ \A n \in 1..Len(Activations) :
       LET a == Activations[n]
       IN (Answered200(a) /\ OwnPartialsWellFormed(a)) =>
            LET body == a.responses[1].body.v
            IN /\ Len(a.responses) = 1
               /\ body.transcription = StrV(OwnTranscript(a))
               /\ body.summary.v =
                    StrJoin([t \in 1..Len(OwnPartials(a)) |->
                               Get(OwnPartials(a)[t], "summary").v], Rep(" ", 1))
               /\ body.structuredNotes.v = NotesOf(OwnPartials(a))
               /\ body.qaPairs.v =
                    FilterQA(QAFromReply(a.qaReply), ParseMarksList(a.req.marksList)).items
  /\ DOMAIN notes = 1..Cardinality(Saved)
  /\ \A id \in DOMAIN notes : notes[id].id = id
  /\ \A n \in Saved :
       \E id \in DOMAIN notes :
         notes[id].transcription = StrV(OwnTranscript(Activations[n]))

\* both requests answered 200, with different transcripts and questions
RequestsIsolatedWitness ==
  /\ Len(Activations) = 2
  /\ \A n \in 1..2 : Answered200(Activations[n])
  /\ DOMAIN notes = {1, 2}
  /\ notes[1].transcription # notes[2].transcription
  /\ Activations[1].responses[1].body.v.qaPairs # Activations[2].responses[1].body.v.qaPairs
  /\ Activations[1].marksList # Activations[2].marksList

\* x is one of the entries of the list
IsIn(x, list) == \E m \in 1..Len(list) : list[m].k = x.k /\ list[m].v = x.v

\* the pairs the model wrote, as the answer has them
WrittenPairs == Get(JSONparse(qaReply.v.v).val, "qaPairs").v

\* C33: the qaPairs generateAISummary returns are the pairs of the model's
\* answer whose marks are in marksList, all of them and in the answer's
\* order
FilterKeepsAllowed ==
  Returned =>
    aiResult.v.qaPairs.v =
      SelectSeq(WrittenPairs, LAMBDA qa : IsIn(Get(qa, "marks"), marksList))

\* marksList is [2, 10] and the answer has marks 2, 5 and 10
FilterKeepsWitness ==
  /\ Returned
  /\ marksList = << Num(2), Num(10) >>
  /\ Len(WrittenPairs) = 3
  /\ Len(aiResult.v.qaPairs.v) = 2
  /\ Get(aiResult.v.qaPairs.v[1], "marks") = Num(2)
  /\ Get(aiResult.v.qaPairs.v[2], "marks") = Num(10)

CutReturned == pc # "generate" /\ "transcript" \in DOMAIN req

\* C35: the chunks of chunkText give the text back when they are
\* concatenated, each has between 1 and maxLength characters, all but the
\* last have maxLength, and the empty text has no chunk and no summarization
\* call
ChunkTextPartitions ==
  CutReturned =>
    /\ StrJoin(textChunks, << >>) = req.transcript
    /\ \A c \in 1..Len(textChunks) :
         /\ StrLen(textChunks[c]) \in 1..req.maxLength
         /\ c < Len(textChunks) => StrLen(textChunks[c]) = req.maxLength
    /\ req.transcript = << >> => (textChunks = << >> /\ SummarizeCalls = 0)
    /\ req.transcript # << >> => SummarizeCalls = Min(Len(textChunks), BATCH_SIZE)

\* three chunks, the last one shorter than maxLength
ChunkTextWitness ==
  /\ CutReturned
  /\ Len(textChunks) = 3
  /\ StrLen(textChunks[3]) < req.maxLength
  /\ req.maxLength > 1

\* C36: a request has no response while its handler runs and exactly one
\* when the handler has finished, and a response that was sent is never
\* followed by another
OneResponse ==
  /\ [](IF pc = "done" THEN Len(responses) = 1 ELSE responses = << >>)
  /\ [][responses # << >> => responses' = responses]_vars

\* the handler answers 500 for an exception thrown after the language
\* model was called
OneResponseWitness ==
  /\ pc = "done"
  /\ Responded(500)
  /\ Len(responses) = 1
  /\ llmLog # << >>

\* the least number of batches of BATCH_SIZE for n items
BatchesFor(n) == (n + BATCH_SIZE - 1) \div BATCH_SIZE

\* the transcription loop has ended without an exception
TranscribeLoopEnded ==
  \/ pc \in {"summarizing", "sum_delay", "questions", "saving"}
  \/ Returned
  \/ Responded(400) /\ sttLog # << >>

\* the summarization loop has ended without an exception
SummarizeLoopEnded == pc \in {"questions", "saving"} \/ Returned

\* C37: when every call returns or throws, the request is answered in the
\* end, and a batch loop over N items that ends has run ceil(N/5) batches
EveryRequestAnswered ==
  /\ <>(pc = "done" /\ Len(responses) = 1)
  /\ [](/\ i <= BATCH_SIZE * BatchesFor(Len(chunks))
        /\ ci <= BATCH_SIZE * BatchesFor(Len(textChunks))
        /\ TranscribeLoopEnded => i = BATCH_SIZE * BatchesFor(Len(chunks))
        /\ SummarizeLoopEnded => ci = BATCH_SIZE * BatchesFor(Len(textChunks)))

\* a request of more than five chunks is answered after two batches
EveryRequestWitness ==
  /\ pc = "done"
  /\ Responded(200)
  /\ Len(chunks) > BATCH_SIZE
  /\ i = 2 * BATCH_SIZE
  /\ ci = BATCH_SIZE * BatchesFor(Len(textChunks))

\* generateAISummary was called and has returned or thrown
InvocationEnded == llmLog # << >> /\ pc \in {"saving", "done"}

\* every summarization call of the invocation failed
EverySummaryFailed ==
  /\ Len(parsedLog) = Len(textChunks)
  /\ \A t \in 1..Len(parsedLog) : parsedLog[t] = Null

\* C38: an invocation of generateAISummary makes the question call exactly
\* once, after every summarization call has been made and has ended, and
\* with an empty summary when every summarization call failed
QuestionCallOnce ==
  /\ QuestionCalls <= 1
  /\ InvocationEnded => QuestionCalls = 1
  /\ QuestionCalls = 1 =>
       /\ llmLog[Len(llmLog)].k = "questions"
       /\ SummarizeCalls = Len(textChunks)
       /\ Len(parsedLog) = Len(textChunks)
       /\ EverySummaryFailed => llmLog[Len(llmLog)].v = << >>

====
